---- MODULE Spec2Model ----
(***************************************************************************)
(* The task service of the kanban board backend: the tasks table, the      *)
(* field-level conflict resolver and the transactions createTask,          *)
(* updateTask, moveTask, deleteTask and rebalanceColumn, run concurrently   *)
(* by the message router on behalf of several sessions.                    *)
(*                                                                         *)
(* A transaction that takes a row lock (SELECT ... FOR UPDATE) is two      *)
(* steps: the locking read and the write-and-commit.  Other sessions'      *)
(* steps interleave between the two.                                       *)
(*                                                                         *)
(* Positions are FLOAT8 in the source.  Here a position is an integer      *)
(* number of quarters, so 0.5 is 2, 1.25 is 5 and 65536 is 262144.         *)
(* Timestamps (createdAt, updatedAt) are left out of the row.              *)
(***************************************************************************)
EXTENDS Integers, Sequences, FiniteSets, TLC

\* ---------------------------------------------------------------- bounds
MaxTasks == 2
MaxWrites == 2

\* ------------------------------------------------------- program constants
INITIAL_STEP == 262144
MIN_GAP == 2

COLUMNS == {"todo", "inprogress", "done"}

\* ------------------------------------------------------------- the inputs
Clients == {"A", "B"}
TaskIds == 1..MaxTasks
BaseVersions == 1..(MaxWrites + 1)
ClientColumns == {"todo", "done"}
ClientPositions == {0, 4}
CreateColumns == {"todo"}
CreateTitles == {" "}
ChangeSets == SUBSET {"title", "description"}

VARIABLES
  tasks,     \* the tasks table: task id -> committed row
  nextId,    \* the id the next INSERT gets
  pc,        \* where each session's handler stands
  lockId,    \* the task id of the row a handler has locked (0: none)
  cur,       \* the row a handler's transaction has read (or is about to insert)
  rebRows,   \* the rows a rebalance has locked, in their ORDER BY order
  res,       \* the result of the service call that returned last
  writes,    \* the number of committed UPDATE_TASK and MOVE_TASK writes
  connections, \* broadcaster: the sessions registered with an OPEN socket
  sent,      \* what the router step taken last sent: who it served, and the
             \* messages in send order, each with the sessions it went to
  sockets,   \* wsServer: each WebSocket's clientId, readyState and how far its
             \* connection callback has got
  registry,  \* broadcaster.connections as a Map: clientId -> WebSocket
  presence,  \* presenceManager: the clientIds with a presence entry
  outbox,    \* the messages written to each WebSocket, in ws.send order
  inflight,  \* the frames each client has sent that have not yet arrived
  frames,    \* the number of frames each client has sent on its socket
  handler,   \* the handleMessage calls in progress: the socket and clientId a
             \* call serves, the operations it has still to handle (more than
             \* one for REPLAY_QUEUE) and the service result it is about to
             \* answer
  split,     \* orderingAlgorithm: the two positions an insertion lies between
             \* and what positionBetween returned for them
  store,     \* boardStore: the state of one browser tab's store
  delivered, \* useWebSocket: the server message the tab handled last
  txn        \* withTransaction: each session's open transaction, the rows it
             \* has locked and read, and its writes not yet committed

serverVars == <<sockets, registry, presence, outbox, inflight, frames, handler>>

dbVars == <<tasks, nextId, pc, lockId, cur, rebRows, res, writes>>

auxVars == <<split, store, delivered, txn>>

vars == <<tasks, nextId, pc, lockId, cur, rebRows, res, writes, connections, sent,
          sockets, registry, presence, outbox, inflight, frames, handler, split,
          store, delivered, txn>>

\* ------------------------------------------------------------ conflictResolver
FieldOrder == <<"title", "description", "columnId", "position">>

FIELD_VERSION_MAP ==
  [title |-> "titleVersion", description |-> "descriptionVersion",
   columnId |-> "columnVersion", position |-> "positionVersion"]

\* Object.entries(changes): the requested fields, in key order
Entries(changes) == SelectSeq(FieldOrder, LAMBDA f : f \in DOMAIN changes)

EmptyChanges == [f \in {} |-> 0]

\* the loop with the comparison fieldVersion < baseVersion
RECURSIVE analyseLoop_strict(_, _, _, _, _)
analyseLoop_strict(current, baseVersion, changes, entries, acc) ==
  IF entries = <<>> THEN acc
  ELSE LET field == Head(entries)
       IN IF current[FIELD_VERSION_MAP[field]] < baseVersion
          THEN analyseLoop_strict(current, baseVersion, changes, Tail(entries),
                 [acc EXCEPT !.mergedChanges = (field :> changes[field]) @@ @,
                             !.mergedFields = Append(@, field)])
          ELSE analyseLoop_strict(current, baseVersion, changes, Tail(entries),
                 [acc EXCEPT !.rejectedFields = Append(@, field)])

RECURSIVE analyseLoop(_, _, _, _, _)
analyseLoop(current, baseVersion, changes, entries, acc) ==
  IF entries = <<>> THEN acc
  ELSE LET field == Head(entries)
           versionKey == FIELD_VERSION_MAP[field]
           fieldVersion == current[versionKey]
       IN IF fieldVersion <= baseVersion
          THEN analyseLoop(current, baseVersion, changes, Tail(entries),
                 [acc EXCEPT !.mergedChanges = (field :> changes[field]) @@ @,
                             !.mergedFields = Append(@, field)])
          ELSE analyseLoop(current, baseVersion, changes, Tail(entries),
                 [acc EXCEPT !.rejectedFields = Append(@, field)])

analyseConflict(current, baseVersion, changes) ==
  LET r == analyseLoop(current, baseVersion, changes, Entries(changes),
             [mergedChanges |-> EmptyChanges, mergedFields |-> <<>>,
              rejectedFields |-> <<>>])
  IN [mergedChanges |-> r.mergedChanges,
      mergedFields |-> r.mergedFields,
      rejectedFields |-> r.rejectedFields,
      hasConflict |-> Len(r.rejectedFields) > 0,
      fullyRejected |-> Len(r.mergedFields) = 0 /\ Len(r.rejectedFields) > 0]

\* ------------------------------------------------------------------ rows
\* the columns of the tasks table (001_initial.sql), without the timestamps
NewRow(title, description, columnId, position) ==
  [title |-> title, description |-> description,
   columnId |-> columnId, position |-> position,
   version |-> 1, titleVersion |-> 1, descriptionVersion |-> 1,
   columnVersion |-> 1, positionVersion |-> 1]

NoRow == [NewRow("", "", "todo", 0) EXCEPT
            !.version = 0, !.titleVersion = 0, !.descriptionVersion = 0,
            !.columnVersion = 0, !.positionVersion = 0]

NoConflict == [resolution |-> "NONE", mergedFields |-> <<>>, rejectedFields |-> <<>>]

NoReq == [type |-> "NONE", taskId |-> 0, baseVersion |-> 0,
          changes |-> EmptyChanges, columnId |-> "todo", position |-> 0,
          title |-> "", description |-> ""]

NoRes == [type |-> "NONE", taskId |-> 0, status |-> "none", task |-> NoRow, conflict |-> NoConflict,
          needsRebalance |-> FALSE, deleted |-> FALSE]

Abs(x) == IF x < 0 THEN -x ELSE x

SetMax(S) == CHOOSE x \in S : \A y \in S : y <= x

ColumnTasks(tbl, columnId) == {t \in DOMAIN tbl : tbl[t].columnId = columnId}

\* the title a client proposes is its own name, the description its name + "-desc"
ClientChanges(c, F) ==
  [f \in F |-> IF f = "title" THEN c ELSE c \o "-desc"]


\* ------------------------------------------------------------- row locks
\* the rows a session's open transaction holds FOR UPDATE
Holds(c, t) ==
  \/ pc[c] = "locked" /\ lockId[c] = t
  \/ pc[c] = "rebalLocked" /\ \E i \in 1..Len(rebRows[c]) : rebRows[c][i].id = t

\* SELECT without FOR UPDATE: the read never waits for another transaction
RowLockFree_noLock(c, t) == TRUE

\* no other transaction holds a lock on row t
RowLockFree(c, t) == \A d \in Clients \ {c} : ~Holds(d, t)

\* -------------------------------------------------------------- createTask
\* String.trim on the titles the clients send
Trim(title) == IF title = " " THEN "" ELSE title

\* a positionAtEnd that returns the column's maximum itself
positionAtEnd_noStep(tbl, columnId) ==
  LET positions == {tbl[t].position : t \in ColumnTasks(tbl, columnId)}
  IN IF positions = {} THEN INITIAL_STEP ELSE SetMax(positions)

positionAtEnd(tbl, columnId) ==
  LET positions == {tbl[t].position : t \in ColumnTasks(tbl, columnId)}
      max_pos == IF positions = {} THEN 0 ELSE SetMax(positions)
  IN max_pos + INITIAL_STEP

InsertRow(payload, position) ==
  NewRow(IF Trim(payload.title) = "" THEN "New Task" ELSE Trim(payload.title),
         payload.description, payload.columnId, position)

\* -------------------------------------------------------------- updateTask
Conflict(resolution, analysis) ==
  [resolution |-> resolution,
   mergedFields |-> IF resolution = "REJECTED" THEN <<>> ELSE analysis.mergedFields,
   rejectedFields |-> analysis.rejectedFields]

\* an UPDATE that writes the merged values and version but no per-field version
updateRow_noFieldStamp(row, current, analysis) ==
  LET mc == analysis.mergedChanges
  IN [row EXCEPT
        !.title = IF "title" \in DOMAIN mc THEN mc["title"] ELSE @,
        !.description = IF "description" \in DOMAIN mc THEN mc["description"] ELSE @,
        !.version = current.version + 1]

\* UPDATE tasks SET <merged fields>, version WHERE id = taskId, on the stored row
updateRow(row, current, analysis) ==
  LET newVersion == current.version + 1
      mc == analysis.mergedChanges
  IN [row EXCEPT
        !.title = IF "title" \in DOMAIN mc THEN mc["title"] ELSE @,
        !.titleVersion = IF "title" \in DOMAIN mc THEN newVersion ELSE @,
        !.description = IF "description" \in DOMAIN mc THEN mc["description"] ELSE @,
        !.descriptionVersion = IF "description" \in DOMAIN mc THEN newVersion ELSE @,
        !.version = newVersion]

\* an updateTask that returns the row unwritten when no field is requested
updateTask_skipsEmpty(row, current, payload) ==
  LET analysis == analyseConflict(current, payload.baseVersion, payload.changes)
  IN IF analysis.fullyRejected \/ DOMAIN payload.changes = {}
     THEN [write |-> FALSE, row |-> row, task |-> current,
           conflict |-> IF analysis.fullyRejected
                        THEN Conflict("REJECTED", analysis) ELSE NoConflict,
           needsRebalance |-> FALSE]
     ELSE LET updated == updateRow(row, current, analysis)
          IN [write |-> TRUE, row |-> updated, task |-> updated,
              conflict |-> IF analysis.hasConflict
                           THEN Conflict("MERGED", analysis) ELSE NoConflict,
              needsRebalance |-> FALSE]

\* the transaction body after the locking read: row is the stored row,
\* current the row as read under the lock
updateTask(row, current, payload) ==
  LET analysis == analyseConflict(current, payload.baseVersion, payload.changes)
  IN IF analysis.fullyRejected
     THEN [write |-> FALSE, row |-> row, task |-> current,
           conflict |-> Conflict("REJECTED", analysis), needsRebalance |-> FALSE]
     ELSE LET updated == updateRow(row, current, analysis)
          IN [write |-> TRUE, row |-> updated, task |-> updated,
              conflict |-> IF analysis.hasConflict
                           THEN Conflict("MERGED", analysis) ELSE NoConflict,
              needsRebalance |-> FALSE]

\* ---------------------------------------------------------------- moveTask
MoveChanges(payload) ==
  [f \in {"columnId", "position"} |->
     IF f = "columnId" THEN payload.columnId ELSE payload.position]

\* a move UPDATE that writes column_id, position and version only
moveRow_noFieldStamp(row, current, analysis) ==
  LET mc == analysis.mergedChanges
  IN [row EXCEPT
        !.columnId = IF "columnId" \in DOMAIN mc THEN mc["columnId"] ELSE current.columnId,
        !.position = IF "position" \in DOMAIN mc THEN mc["position"] ELSE current.position,
        !.version = current.version + 1]

\* a move UPDATE that stamps every per-field version (row-level versioning)
moveRow_stampsAll(row, current, analysis) ==
  LET newVersion == current.version + 1
      mc == analysis.mergedChanges
  IN [row EXCEPT
        !.columnId = IF "columnId" \in DOMAIN mc THEN mc["columnId"] ELSE current.columnId,
        !.position = IF "position" \in DOMAIN mc THEN mc["position"] ELSE current.position,
        !.titleVersion = newVersion, !.descriptionVersion = newVersion,
        !.columnVersion = newVersion, !.positionVersion = newVersion,
        !.version = newVersion]

\* UPDATE tasks SET column_id, position, column_version, position_version,
\* version WHERE id = taskId, on the stored row
moveRow(row, current, analysis) ==
  LET newVersion == current.version + 1
      mc == analysis.mergedChanges
      newColumnId == IF "columnId" \in DOMAIN mc THEN mc["columnId"] ELSE current.columnId
      newPosition == IF "position" \in DOMAIN mc THEN mc["position"] ELSE current.position
  IN [row EXCEPT !.columnId = newColumnId, !.position = newPosition,
                 !.columnVersion = newVersion, !.positionVersion = newVersion,
                 !.version = newVersion]

\* the neighbours query with ORDER BY ABS(position - $3) DESC: the two rows
\* of the column farthest from the new position
Neighbours_farthest(tbl, t, columnId, position) ==
  LET others == ColumnTasks(tbl, columnId) \ {t}
      d(u) == Abs(tbl[u].position - position)
  IN {N \in SUBSET others :
        /\ Cardinality(N) = (IF Cardinality(others) < 2 THEN Cardinality(others) ELSE 2)
        /\ \A u \in N, w \in others \ N : d(u) >= d(w)}

\* ORDER BY ABS(position - $3) ASC LIMIT 2 over the other rows of the column:
\* the possible result sets (ties are broken arbitrarily)
Neighbours(tbl, t, columnId, position) ==
  LET others == ColumnTasks(tbl, columnId) \ {t}
      d(u) == Abs(tbl[u].position - position)
  IN {N \in SUBSET others :
        /\ Cardinality(N) = (IF Cardinality(others) < 2 THEN Cardinality(others) ELSE 2)
        /\ \A u \in N, w \in others \ N : d(u) <= d(w)}

\* moveTask without the early return on fullyRejected
moveTask_noRejectBranch(tbl, t, current, payload, neighbours) ==
  LET analysis == analyseConflict(current, payload.baseVersion, MoveChanges(payload))
      updated == moveRow(tbl[t], current, analysis)
  IN [write |-> TRUE, row |-> updated, task |-> updated,
      conflict |-> IF analysis.hasConflict
                   THEN Conflict("MERGED", analysis) ELSE NoConflict,
      needsRebalance |->
        \E n \in neighbours : Abs(tbl[n].position - updated.position) < MIN_GAP]

moveTask(tbl, t, current, payload, neighbours) ==
  LET analysis == analyseConflict(current, payload.baseVersion, MoveChanges(payload))
  IN IF analysis.fullyRejected
     THEN [write |-> FALSE, row |-> tbl[t], task |-> current,
           conflict |-> Conflict("REJECTED", analysis), needsRebalance |-> FALSE]
     ELSE LET updated == moveRow(tbl[t], current, analysis)
          IN [write |-> TRUE, row |-> updated, task |-> updated,
              conflict |-> IF analysis.hasConflict
                           THEN Conflict("MERGED", analysis) ELSE NoConflict,
              needsRebalance |->
                \E n \in neighbours : Abs(tbl[n].position - updated.position) < MIN_GAP]

\* --------------------------------------------------------- rebalanceColumn
\* SELECT * FROM tasks WHERE column_id = $1 ORDER BY position: the possible
\* result sequences (rows with equal positions come in either order)
RECURSIVE OrderedRows(_, _)
OrderedRows(tbl, S) ==
  IF S = {} THEN {<<>>}
  ELSE UNION {{<<[id |-> t, version |-> tbl[t].version]>> \o rest :
                 rest \in OrderedRows(tbl, S \ {t})} :
              t \in {u \in S : \A w \in S : tbl[u].position <= tbl[w].position}}

\* a rebalance UPDATE that stamps position_version but leaves version alone
rebalanceRow_keepsVersion(row, existing, i) ==
  [row EXCEPT !.position = i * INITIAL_STEP,
              !.positionVersion = existing.version + 1]

\* a rebalance UPDATE that numbers the rows from zero: newPos = i * INITIAL_STEP
rebalanceRow_zeroBased(row, existing, i) ==
  [row EXCEPT !.position = (i - 1) * INITIAL_STEP, !.version = existing.version + 1,
              !.positionVersion = existing.version + 1]

\* the UPDATE of the i-th locked row
rebalanceRow(row, existing, i) ==
  LET newPos == i * INITIAL_STEP
      newVersion == existing.version + 1
  IN [row EXCEPT !.position = newPos, !.version = newVersion,
                 !.positionVersion = newVersion]

\* a rebalance whose first UPDATE alone becomes visible
rebalanceColumn_firstRowOnly(tbl, existingRows) ==
  [t \in DOMAIN tbl |->
     IF existingRows # <<>> /\ existingRows[1].id = t
     THEN rebalanceRow(tbl[t], existingRows[1], 1)
     ELSE tbl[t]]

\* the loop of UPDATEs over the locked rows, visible as a whole at COMMIT
rebalanceColumn(tbl, existingRows) ==
  [t \in DOMAIN tbl |->
     IF \E i \in 1..Len(existingRows) : existingRows[i].id = t
     THEN LET i == CHOOSE j \in 1..Len(existingRows) : existingRows[j].id = t
          IN rebalanceRow(tbl[t], existingRows[i], i)
     ELSE tbl[t]]

\* the updates array rebalanceColumn returns: the RETURNING * rows, in loop order
rebalanceUpdates(tbl, existingRows) ==
  [i \in 1..Len(existingRows) |->
     rebalanceRow(tbl[existingRows[i].id], existingRows[i], i)]

\* SELECT * FROM tasks: the committed rows, by id
getAllTasks(tbl) == [t \in DOMAIN tbl |-> tbl[t]]

\* ------------------------------------------------------------- memoryStore
\* bumpVersion: version + 1, stamped on the per-field version of every field
\* of `fields`
bumpVersion(task, fields) ==
  LET newVersion == task.version + 1
  IN [task EXCEPT
        !.version = newVersion,
        !.titleVersion = IF "title" \in fields THEN newVersion ELSE @,
        !.descriptionVersion = IF "description" \in fields THEN newVersion ELSE @,
        !.columnVersion = IF "columnId" \in fields THEN newVersion ELSE @,
        !.positionVersion = IF "position" \in fields THEN newVersion ELSE @]

\* mem_updateTask on the stored task: every merged key is stamped and assigned
mem_updateTask(current, payload) ==
  LET analysis == analyseConflict(current, payload.baseVersion, payload.changes)
  IN IF analysis.fullyRejected
     THEN [write |-> FALSE, row |-> current, task |-> current,
           conflict |-> Conflict("REJECTED", analysis), needsRebalance |-> FALSE]
     ELSE LET mc == analysis.mergedChanges
              bumped == bumpVersion(current, DOMAIN mc)
              updated == [f \in DOMAIN bumped |->
                            IF f \in DOMAIN mc THEN mc[f] ELSE bumped[f]]
          IN [write |-> TRUE, row |-> updated, task |-> updated,
              conflict |-> IF analysis.hasConflict
                           THEN Conflict("MERGED", analysis) ELSE NoConflict,
              needsRebalance |-> FALSE]

\* mem_moveTask on the stored task of id t: the distances to every other task
\* of the column are inspected
mem_moveTask(tbl, t, payload) ==
  LET current == tbl[t]
      analysis == analyseConflict(current, payload.baseVersion, MoveChanges(payload))
  IN IF analysis.fullyRejected
     THEN [write |-> FALSE, row |-> current, task |-> current,
           conflict |-> Conflict("REJECTED", analysis), needsRebalance |-> FALSE]
     ELSE LET mc == analysis.mergedChanges
              newColumnId == IF "columnId" \in DOMAIN mc THEN mc["columnId"]
                             ELSE current.columnId
              newPosition == IF "position" \in DOMAIN mc THEN mc["position"]
                             ELSE current.position
              updated == [bumpVersion(current, {"columnId", "position"}) EXCEPT
                            !.columnId = newColumnId, !.position = newPosition]
          IN [write |-> TRUE, row |-> updated, task |-> updated,
              conflict |-> IF analysis.hasConflict
                           THEN Conflict("MERGED", analysis) ELSE NoConflict,
              needsRebalance |->
                \E u \in ColumnTasks(tbl, newColumnId) \ {t} :
                  Abs(tbl[u].position - newPosition) < MIN_GAP]

\* ------------------------------------------------------------ broadcaster
NoClient == ""

NoSent == [client |-> NoClient, handled |-> "NONE", msgs |-> <<>>]

Sent(clientId, handled, msgs) ==
  [client |-> clientId, handled |-> handled, msgs |-> msgs]

Msg(to, type, payload) == [to |-> to, type |-> type, payload |-> payload]

\* sendTo: one send if the session is registered and OPEN, else nothing
sendTo(conns, clientId, type, payload) ==
  IF clientId \in conns THEN <<Msg({clientId}, type, payload)>> ELSE <<>>

\* broadcast(message, skipClientId?): NoClient stands for undefined
broadcast(conns, type, payload, skipClientId) ==
  IF conns \ {skipClientId} = {} THEN <<>>
  ELSE <<Msg(conns \ {skipClientId}, type, payload)>>

broadcastAll(conns, type, payload) == broadcast(conns, type, payload, NoClient)

\* --------------------------------------------------------------- wsServer
\* the WebSockets the server accepts, and the clientId each may carry in its
\* query string
Sockets == {"s1", "s2"}

ClientIds(s) == IF s = "s1" THEN {"A"} ELSE {"A", "B"}

\* stage: new (not connected), query (registered, getAllTasks not yet run by
\* the database), fetched (the query's rows are on their way back),
\* listening (the message and close callbacks are attached)
NoSocket == [clientId |-> NoClient, stage |-> "new", open |-> FALSE,
             snapshot |-> <<>>]

\* a handleMessage call slot that is free
NoHandler == [socket |-> "", clientId |-> NoClient, ops |-> <<>>, result |-> NoRes]

\* the clientIds sendTo and broadcast reach: registered with an OPEN socket
Reachable(reg, socks) == {id \in DOMAIN reg : socks[reg[id]].open}

\* ws.send of each message on the socket registered for each addressee
Deliver(box, reg, msgs) ==
  [s \in Sockets |->
     LET mine == SelectSeq(msgs, LAMBDA m : \E id \in m.to : reg[id] = s)
     IN box[s] \o [i \in 1..Len(mine) |->
                     [type |-> mine[i].type, payload |-> mine[i].payload]]]

\* ------------------------------------------------------------ withTransaction
\* no transaction is open on the session's pool client
NoTxn ==
  [kind |-> "none", payload |-> NoReq, columnId |-> "todo", stage |-> "none",
   rows |-> <<>>, read |-> <<>>, pending |-> <<>>,
   result |-> [task |-> NoRow, conflict |-> NoConflict, needsRebalance |-> FALSE,
               deleted |-> FALSE],
   last |-> [kind |-> "none", outcome |-> "none", pending |-> <<>>]]

\* how a transaction ended, and the writes it had made
Ended(t, outcome) == [kind |-> t.kind, outcome |-> outcome, pending |-> t.pending]

\* the pool client after ROLLBACK
RolledBack(t) == [NoTxn EXCEPT !.last = Ended(t, "rolledBack")]

\* ---------------------------------------------------- boardStore (client)
\* the board store of one browser tab, and the server messages its
\* useWebSocket hook hands to it.  A task of the store is its id, the row the
\* server sent (or the optimistic one) and the isOptimistic flag.
MaxStore == 3

StoreIds == {"1", "2"}

TempIds == {"tmp1", "tmp2"}

StoreTask(id, row, isOptimistic) ==
  [id |-> id, row |-> row, isOptimistic |-> isOptimistic]

\* the tasks the server announces: task "1" and task "2", each as created or
\* with a later title
ServerRows(id) ==
  LET columnId == IF id = "1" THEN "todo" ELSE "done"
      position == IF id = "1" THEN INITIAL_STEP ELSE 2 * INITIAL_STEP
  IN {NewRow("New Task", "", columnId, position),
      [NewRow("A", "", columnId, position) EXCEPT !.version = 2, !.titleVersion = 2]}

ServerTasks ==
  UNION {{StoreTask(id, row, FALSE) : row \in ServerRows(id)} : id \in StoreIds}

\* TASK_CREATED carries the row as createTask inserted it
CreatedTasks == {t \in ServerTasks : t.row.version = 1}

NoMessage == [type |-> "NONE", task |-> StoreTask("", NoRow, FALSE),
              tempId |-> "", tasks |-> <<>>]

InitialState(snapshot) == [NoMessage EXCEPT !.type = "INITIAL_STATE", !.tasks = snapshot]

TaskCreated(task, tempId) ==
  [NoMessage EXCEPT !.type = "TASK_CREATED", !.task = task, !.tempId = tempId]

\* the snapshots of INITIAL_STATE: every task at most once, ordered by
\* column_id, then position
Snapshots ==
  {<<>>} \cup {<<t>> : t \in ServerTasks} \cup
  {<<t, u>> : t \in {x \in ServerTasks : x.id = "2"},
              u \in {x \in ServerTasks : x.id = "1"}}

ServerMessages ==
  {InitialState(snapshot) : snapshot \in Snapshots} \cup
  {TaskCreated(task, tempId) : task \in CreatedTasks, tempId \in TempIds}

\* tasks.sort((a, b) => a.position - b.position): the sort is stable
RECURSIVE SortByPosition(_)
SortByPosition(list) ==
  IF list = <<>> THEN <<>>
  ELSE LET i == CHOOSE i \in 1..Len(list) :
                  /\ \A j \in 1..Len(list) : list[i].row.position <= list[j].row.position
                  /\ \A j \in 1..(i - 1) : list[j].row.position > list[i].row.position
       IN <<list[i]>> \o
          SortByPosition(SubSeq(list, 1, i - 1) \o SubSeq(list, i + 1, Len(list)))

setInitialState(state, list) == [state EXCEPT !.tasks = SortByPosition(list)]

optimisticCreateTask(state, tempId, columnId, position) ==
  LET optimistic ==
        StoreTask(tempId,
                  [NewRow("New Task", "", columnId, position) EXCEPT
                     !.version = 0, !.titleVersion = 0, !.descriptionVersion = 0,
                     !.columnVersion = 0, !.positionVersion = 0],
                  TRUE)
  IN [state EXCEPT !.tasks = Append(state.tasks, optimistic)]

confirmTaskCreated(state, task, tempId) ==
  [state EXCEPT !.tasks =
     [i \in 1..Len(state.tasks) |->
        IF state.tasks[i].id = tempId
        THEN [task EXCEPT !.isOptimistic = FALSE]
        ELSE state.tasks[i]]]

handleServerMessage(state, msg) ==
  CASE msg.type = "INITIAL_STATE" -> setInitialState(state, msg.tasks)
    [] msg.type = "TASK_CREATED" -> confirmTaskCreated(state, msg.task, msg.tempId)
    [] OTHER -> state

\* the store when the tab opens
NoStore == [tasks |-> <<>>]

\* the table, the handlers and the sockets as the server starts with them
ServerAtStart ==
  /\ tasks = [t \in {} |-> NoRow]
  /\ nextId = 1
  /\ pc = [c \in Clients |-> "idle"]
  /\ lockId = [c \in Clients |-> 0]
  /\ cur = [c \in Clients |-> NoRow]
  /\ rebRows = [c \in Clients |-> <<>>]
  /\ res = NoRes
  /\ writes = 0
  /\ connections = {}
  /\ sent = NoSent
  /\ sockets = [s \in Sockets |-> NoSocket]
  /\ registry = [id \in {} |-> ""]
  /\ presence = {}
  /\ outbox = [s \in Sockets |-> <<>>]
  /\ inflight = [s \in Sockets |-> <<>>]
  /\ frames = [s \in Sockets |-> 0]
  /\ handler = [h \in Clients |-> NoHandler]

\* -------------------------------------------------------- orderingAlgorithm
\* A position is an IEEE double in the source.  Here a double is m * 2^e with
\* m odd (or zero) and at most MantissaBits significant bits; every sum and
\* difference is rounded to the nearest double, ties to the even mantissa,
\* and halving is exact.
MantissaBits == 5

Float(m, e) == [m |-> m, e |-> e]

RECURSIVE Normal(_, _)
Normal(m, e) ==
  IF m = 0 THEN Float(0, 0)
  ELSE IF m % 2 = 0 THEN Normal(m \div 2, e + 1)
  ELSE Float(m, e)

\* the integer number of units 2^e that the double x is, for e <= x.e
Scaled(x, e) == x.m * 2^(x.e - e)

CommonExponent(x, y) == IF x.e < y.e THEN x.e ELSE y.e

RECURSIVE Excess(_)
\* the number of low bits of n that do not fit the mantissa
Excess(n) == IF n < 2^MantissaBits THEN 0 ELSE 1 + Excess(n \div 2)

\* the double nearest to n * 2^e
Round(n, e) ==
  LET a == Abs(n)
      k == Excess(a)
      q == a \div 2^k
      r == a % 2^k
      up == 2 * r > 2^k \/ (2 * r = 2^k /\ q % 2 = 1)
      mag == IF k > 0 /\ up THEN q + 1 ELSE q
  IN Normal(IF n < 0 THEN -mag ELSE mag, e + k)

\* x + y
Sum(x, y) ==
  LET e == CommonExponent(x, y) IN Round(Scaled(x, e) + Scaled(y, e), e)

\* x - y
Difference(x, y) ==
  LET e == CommonExponent(x, y) IN Round(Scaled(x, e) - Scaled(y, e), e)

\* x / 2
Half(x) == IF x.m = 0 THEN x ELSE Float(x.m, x.e - 1)

\* x < y
Less(x, y) ==
  LET e == CommonExponent(x, y) IN Scaled(x, e) < Scaled(y, e)

\* the double of a position given in quarters
Quarters(n) == Normal(n, -2)

\* null, and a number, as a value that may be null
Null == <<>>

Num(x) == <<x>>

\* a positionBetween that treats a gap of exactly MIN_GAP as exhausted
positionBetween_atThreshold(beforePosition, afterPosition) ==
  IF beforePosition = Null /\ afterPosition = Null
  THEN Num(Quarters(INITIAL_STEP))
  ELSE IF beforePosition = Null
  THEN LET pos == Half(afterPosition[1])
       IN IF Less(pos, Quarters(MIN_GAP)) THEN Null ELSE Num(pos)
  ELSE IF afterPosition = Null
  THEN Num(Sum(beforePosition[1], Quarters(INITIAL_STEP)))
  ELSE LET gap == Difference(afterPosition[1], beforePosition[1])
       IN IF ~Less(Quarters(MIN_GAP), gap) THEN Null
          ELSE Num(Sum(beforePosition[1], Half(gap)))

positionBetween(beforePosition, afterPosition) ==
  IF beforePosition = Null /\ afterPosition = Null
  THEN Num(Quarters(INITIAL_STEP))
  ELSE IF beforePosition = Null
  THEN LET pos == Half(afterPosition[1])
       IN IF Less(pos, Quarters(MIN_GAP)) THEN Null ELSE Num(pos)
  ELSE IF afterPosition = Null
  THEN Num(Sum(beforePosition[1], Quarters(INITIAL_STEP)))
  ELSE LET gap == Difference(afterPosition[1], beforePosition[1])
       IN IF Less(gap, Quarters(MIN_GAP)) THEN Null
          ELSE Num(Sum(beforePosition[1], Half(gap)))

\* no call has been made
NoSplit == [before |-> Null, after |-> Null, pos |-> Null, returned |-> FALSE]

\* the positions a caller passes: the small ones around MIN_GAP (0 to 2.0 in
\* quarters), the first positions a column gets, and the first whole numbers
\* whose neighbouring doubles are 1 apart
SplitPositions ==
  {Quarters(n) : n \in 0..8} \cup
  {Quarters(INITIAL_STEP), Quarters(2 * INITIAL_STEP)} \cup
  {Normal(2^(MantissaBits - 1) + n, 0) : n \in 0..3}

SplitArguments == {Null} \cup {Num(x) : x \in SplitPositions}

OrderingInit ==
  /\ split \in [before : SplitArguments, after : SplitArguments,
                pos : {Null}, returned : {FALSE}]
  /\ store = NoStore
  /\ delivered = NoMessage
  /\ txn = [c \in Clients |-> NoTxn]
  /\ ServerAtStart

\* the call positionBetween(before, after)
Between ==
  /\ ~split.returned
  /\ split' = [split EXCEPT !.pos = positionBetween(split.before, split.after),
                            !.returned = TRUE]
  /\ UNCHANGED <<store, delivered, txn, dbVars, connections, sent, serverVars>>

\* the next insertion goes into the gap below the position just returned
InsertBelow ==
  /\ split.returned
  /\ split.pos # Null
  /\ split' = [split EXCEPT !.after = split.pos, !.pos = Null, !.returned = FALSE]
  /\ UNCHANGED <<store, delivered, txn, dbVars, connections, sent, serverVars>>

\* the next insertion goes into the gap above the position just returned
InsertAbove ==
  /\ split.returned
  /\ split.pos # Null
  /\ split' = [split EXCEPT !.before = split.pos, !.pos = Null, !.returned = FALSE]
  /\ UNCHANGED <<store, delivered, txn, dbVars, connections, sent, serverVars>>

OrderingNext == Between \/ InsertBelow \/ InsertAbove

OrderingSpec == OrderingInit /\ [][OrderingNext]_vars

\* ------------------------------------------------------------------- Init
\* the tasks table after the migration: no rows; no handler is running
Init ==
  /\ tasks = [t \in {} |-> NoRow]
  /\ nextId = 1
  /\ pc = [c \in Clients |-> "idle"]
  /\ lockId = [c \in Clients |-> 0]
  /\ cur = [c \in Clients |-> NoRow]
  /\ rebRows = [c \in Clients |-> <<>>]
  /\ res = NoRes
  /\ writes = 0
  /\ connections = {}
  /\ sent = NoSent
  /\ sockets = [s \in Sockets |-> NoSocket]
  /\ registry = [id \in {} |-> ""]
  /\ presence = {}
  /\ outbox = [s \in Sockets |-> <<>>]
  /\ inflight = [s \in Sockets |-> <<>>]
  /\ frames = [s \in Sockets |-> 0]
  /\ handler = [h \in Clients |-> NoHandler]
  /\ split = NoSplit
  /\ store = NoStore
  /\ delivered = NoMessage
  /\ txn = [c \in Clients |-> NoTxn]

Ok(payload, t, r, deleted) ==
  [type |-> payload.type, taskId |-> t, status |-> "ok", task |-> r.task, conflict |-> r.conflict,
   needsRebalance |-> r.needsRebalance, deleted |-> deleted]

\* the handler threw: the transaction is rolled back
Failed(payload) ==
  [NoRes EXCEPT !.type = payload.type, !.taskId = payload.taskId, !.status = "error"]

Plain(task) == [task |-> task, conflict |-> NoConflict, needsRebalance |-> FALSE]

\* ------------------------------------------------------------- CREATE_TASK
CreateReq(title, columnId, position) ==
  [NoReq EXCEPT !.type = "CREATE_TASK", !.title = title,
                !.columnId = columnId, !.position = position]

\* createTask with a client position > 0: BEGIN, INSERT, COMMIT
CreateTask(c, payload) ==
  /\ pc[c] = "idle"
  /\ payload.position > 0
  /\ nextId <= MaxTasks
  /\ LET row == InsertRow(payload, payload.position)
     IN /\ tasks' = (nextId :> row) @@ tasks
        /\ res' = Ok(payload, nextId, Plain(row), FALSE)
  /\ nextId' = nextId + 1
  /\ UNCHANGED <<pc, lockId, cur, rebRows, writes>>

\* createTask without a usable position: BEGIN, then the positionAtEnd query
CreateRead(c, payload) ==
  /\ pc[c] = "idle"
  /\ ~(payload.position > 0)
  /\ nextId <= MaxTasks
  /\ pc' = [pc EXCEPT ![c] = "creating"]
  /\ cur' = [cur EXCEPT ![c] =
               InsertRow(payload, positionAtEnd(tasks, payload.columnId))]
  /\ UNCHANGED <<tasks, nextId, lockId, rebRows, res, writes>>

\* ... then INSERT and COMMIT
CreateInsert(c) ==
  /\ pc[c] = "creating"
  /\ nextId <= MaxTasks
  /\ tasks' = (nextId :> cur[c]) @@ tasks
  /\ nextId' = nextId + 1
  /\ res' = Ok(CreateReq("", cur[c].columnId, 0), nextId, Plain(cur[c]), FALSE)
  /\ pc' = [pc EXCEPT ![c] = "idle"]
  /\ cur' = [cur EXCEPT ![c] = NoRow]
  /\ UNCHANGED <<lockId, rebRows, writes>>

\* ------------------------------------------------- UPDATE_TASK, MOVE_TASK
UpdateReq(c, t, baseVersion, F) ==
  [NoReq EXCEPT !.type = "UPDATE_TASK", !.taskId = t,
                !.baseVersion = baseVersion, !.changes = ClientChanges(c, F)]

MoveReq(t, baseVersion, columnId, position) ==
  [NoReq EXCEPT !.type = "MOVE_TASK", !.taskId = t, !.baseVersion = baseVersion,
                !.columnId = columnId, !.position = position]

\* updateTask and moveTask start alike:
\* BEGIN; SELECT * FROM tasks WHERE id = $1 FOR UPDATE
\* (waits while another transaction holds the row)
LockRow(c, t) ==
  /\ pc[c] = "idle"
  /\ t \in DOMAIN tasks
  /\ RowLockFree(c, t)
  /\ pc' = [pc EXCEPT ![c] = "locked"]
  /\ lockId' = [lockId EXCEPT ![c] = t]
  /\ cur' = [cur EXCEPT ![c] = tasks[t]]
  /\ UNCHANGED <<tasks, nextId, rebRows, res, writes>>

\* the locking SELECT of updateTask or moveTask finds no row: throw, ROLLBACK
NotFound(c, payload) ==
  /\ pc[c] = "idle"
  /\ payload.taskId \notin DOMAIN tasks
  /\ res' = Failed(payload)
  /\ UNCHANGED <<tasks, nextId, pc, lockId, cur, rebRows, writes>>

\* updateTask after the locking read: conflict analysis, UPDATE ... RETURNING *,
\* COMMIT.  The payload came with the message; it is first used here.
UpdateCommit(c, payload) ==
  /\ pc[c] = "locked"
  /\ payload.taskId = lockId[c]
  /\ pc' = [pc EXCEPT ![c] = "idle"]
  /\ lockId' = [lockId EXCEPT ![c] = 0]
  /\ cur' = [cur EXCEPT ![c] = NoRow]
  /\ LET t == payload.taskId
     IN IF t \notin DOMAIN tasks
        THEN /\ res' = Failed(payload)
             /\ UNCHANGED <<tasks, writes>>
        ELSE LET r == updateTask(tasks[t], cur[c], payload)
             IN /\ r.write => writes < MaxWrites
                /\ writes' = IF r.write THEN writes + 1 ELSE writes
                /\ tasks' = IF r.write THEN [tasks EXCEPT ![t] = r.row] ELSE tasks
                /\ res' = Ok(payload, t, r, FALSE)
  /\ UNCHANGED <<nextId, rebRows>>

\* moveTask after the locking read: conflict analysis, UPDATE ... RETURNING *,
\* the neighbours query, COMMIT; the router then awaits rebalanceColumn when
\* needsRebalance is set
MoveCommit(c, payload) ==
  /\ pc[c] = "locked"
  /\ payload.taskId = lockId[c]
  /\ lockId' = [lockId EXCEPT ![c] = 0]
  /\ LET t == payload.taskId
     IN IF t \notin DOMAIN tasks
        THEN /\ res' = Failed(payload)
             /\ pc' = [pc EXCEPT ![c] = "idle"]
             /\ cur' = [cur EXCEPT ![c] = NoRow]
             /\ UNCHANGED <<tasks, writes>>
        ELSE LET w == moveTask(tasks, t, cur[c], payload, {})
             IN /\ w.write => writes < MaxWrites
                /\ writes' = IF w.write THEN writes + 1 ELSE writes
                /\ tasks' = IF w.write THEN [tasks EXCEPT ![t] = w.row] ELSE tasks
                /\ \E neighbours \in Neighbours(tasks', t, w.row.columnId,
                                                 w.row.position) :
                     LET r == moveTask(tasks, t, cur[c], payload, neighbours)
                     IN /\ res' = Ok(payload, t, r, FALSE)
                        /\ pc' = [pc EXCEPT ![c] =
                                    IF r.needsRebalance THEN "rebalance" ELSE "idle"]
                        /\ cur' = [cur EXCEPT ![c] =
                                     IF r.needsRebalance THEN r.task ELSE NoRow]
  /\ UNCHANGED <<nextId, rebRows>>

\* ------------------------------------------------------------- DELETE_TASK
DeleteReq(t, baseVersion) ==
  [NoReq EXCEPT !.type = "DELETE_TASK", !.taskId = t, !.baseVersion = baseVersion]

\* a deleteTask that enforces baseVersion: a stale delete removes nothing
deleteTask_checksVersion(tbl, payload) ==
  LET t == payload.taskId
  IN IF t \in DOMAIN tbl /\ tbl[t].version <= payload.baseVersion
     THEN [deleted |-> TRUE, task |-> tbl[t],
           table |-> [u \in DOMAIN tbl \ {t} |-> tbl[u]]]
     ELSE [deleted |-> FALSE, task |-> NoRow, table |-> tbl]

\* DELETE FROM tasks WHERE id = $1 RETURNING *: the rows left, and the result
deleteTask(tbl, payload) ==
  LET t == payload.taskId
  IN IF t \notin DOMAIN tbl
     THEN [deleted |-> FALSE, task |-> NoRow, table |-> tbl]
     ELSE [deleted |-> TRUE, task |-> tbl[t],
           table |-> [u \in DOMAIN tbl \ {t} |-> tbl[u]]]

\* deleteTask: BEGIN, the DELETE (waits for the row lock), COMMIT
DeleteTask(c, payload) ==
  /\ pc[c] = "idle"
  /\ RowLockFree(c, payload.taskId)
  /\ LET r == deleteTask(tasks, payload)
     IN /\ res' = Ok(payload, payload.taskId, Plain(r.task), r.deleted)
        /\ tasks' = r.table
  /\ UNCHANGED <<nextId, pc, lockId, cur, rebRows, writes>>

\* --------------------------------------------- rebalance (handleMoveTask)
\* BEGIN; SELECT * FROM tasks WHERE column_id = $1 ORDER BY position FOR UPDATE
\* with the column of the task that moveTask returned
RebalanceLock(c) ==
  /\ pc[c] = "rebalance"
  /\ LET S == ColumnTasks(tasks, cur[c].columnId)
     IN /\ \A t \in S : RowLockFree(c, t)
        /\ \E existingRows \in OrderedRows(tasks, S) :
             rebRows' = [rebRows EXCEPT ![c] = existingRows]
  /\ pc' = [pc EXCEPT ![c] = "rebalLocked"]
  /\ cur' = [cur EXCEPT ![c] = NoRow]
  /\ UNCHANGED <<tasks, nextId, lockId, res, writes>>

\* the UPDATE of every locked row, COMMIT
RebalanceCommit(c) ==
  /\ pc[c] = "rebalLocked"
  /\ tasks' = IF \A i \in 1..Len(rebRows[c]) : rebRows[c][i].id \in DOMAIN tasks
              THEN rebalanceColumn(tasks, rebRows[c])
              ELSE tasks
  /\ pc' = [pc EXCEPT ![c] = "idle"]
  /\ rebRows' = [rebRows EXCEPT ![c] = <<>>]
  /\ UNCHANGED <<nextId, lockId, cur, res, writes>>

\* ------------------------------------------------------------------- Next
CreatePayloads ==
  {CreateReq(title, columnId, position) :
     title \in CreateTitles, columnId \in CreateColumns, position \in ClientPositions}

UpdatePayloads(c) ==
  UNION {{UpdateReq(c, t, b, F) : b \in BaseVersions, F \in ChangeSets} : t \in TaskIds}

MovePayloads ==
  UNION {{MoveReq(t, b, columnId, position) :
            b \in BaseVersions, columnId \in ClientColumns,
            position \in ClientPositions} : t \in TaskIds}

DeletePayloads == {DeleteReq(t, b) : t \in TaskIds, b \in BaseVersions}

\* the payloads tried against a missing row: one update and one move per id
MissingRowPayloads(c) ==
  {UpdateReq(c, t, 1, {"title"}) : t \in TaskIds} \cup
  {MoveReq(t, 1, "done", 4) : t \in TaskIds}

\* a service step taken for a caller that is not a session: nothing is sent
Service(A) == A /\ UNCHANGED <<connections, sent, serverVars, auxVars>>

Next ==
  \/ \E c \in Clients, payload \in CreatePayloads : Service(CreateTask(c, payload))
  \/ \E c \in Clients, payload \in CreatePayloads : Service(CreateRead(c, payload))
  \/ \E c \in Clients : Service(CreateInsert(c))
  \/ \E c \in Clients, t \in TaskIds : Service(LockRow(c, t))
  \/ \E c \in Clients : \E payload \in MissingRowPayloads(c) : Service(NotFound(c, payload))
  \/ \E c \in Clients : \E payload \in UpdatePayloads(c) : Service(UpdateCommit(c, payload))
  \/ \E c \in Clients, payload \in MovePayloads : Service(MoveCommit(c, payload))
  \/ \E c \in Clients, payload \in DeletePayloads : Service(DeleteTask(c, payload))
  \/ \E c \in Clients : Service(RebalanceLock(c))
  \/ \E c \in Clients : Service(RebalanceCommit(c))

Spec == Init /\ [][Next]_vars

\* ================================================================== router
\* the payload of CONFLICT_RESOLVED: the service's conflict object
ConflictPayload(result) ==
  [taskId |-> result.taskId, resolution |-> result.conflict.resolution,
   task |-> result.task, mergedFields |-> result.conflict.mergedFields,
   rejectedFields |-> result.conflict.rejectedFields]

\* err.message of the Error updateTask and moveTask throw
NotFoundMessage(taskId) == <<"Task", taskId, "not found">>

\* a handler that broadcasts the task before it tells the sender of the conflict
handleTaskWrite_announceFirst(conns, clientId, result, announce) ==
  broadcastAll(conns, announce, result.task)
  \o (IF result.conflict.resolution \in {"REJECTED", "MERGED"}
      THEN sendTo(conns, clientId, "CONFLICT_RESOLVED", ConflictPayload(result))
      ELSE <<>>)

\* handleUpdateTask / handleMoveTask after the service call has returned;
\* announce is TASK_UPDATED or TASK_MOVED
handleTaskWrite(conns, clientId, result, announce) ==
  IF result.conflict.resolution = "REJECTED"
  THEN sendTo(conns, clientId, "CONFLICT_RESOLVED", ConflictPayload(result))
       \o broadcast(conns, announce, result.task, NoClient)
  ELSE (IF result.conflict.resolution = "MERGED"
        THEN sendTo(conns, clientId, "CONFLICT_RESOLVED", ConflictPayload(result))
        ELSE <<>>)
       \o broadcastAll(conns, announce, result.task)

handleUpdateTask(conns, clientId, result) ==
  handleTaskWrite(conns, clientId, result, "TASK_UPDATED")

handleMoveTask(conns, clientId, result) ==
  handleTaskWrite(conns, clientId, result, "TASK_MOVED")

handleCreateTask(conns, clientId, result) ==
  broadcastAll(conns, "TASK_CREATED", result.task)

\* a handler that announces the deletion whatever deleteTask returned
handleDeleteTask_alwaysAnnounces(conns, clientId, result) ==
  broadcastAll(conns, "TASK_DELETED", [taskId |-> result.taskId])

handleDeleteTask(conns, clientId, result) ==
  IF ~result.deleted
  THEN sendTo(conns, clientId, "ERROR",
              [code |-> "NOT_FOUND", message |-> NotFoundMessage(result.taskId),
               taskId |-> result.taskId])
  ELSE broadcastAll(conns, "TASK_DELETED", [taskId |-> result.taskId])

\* a handleMessage whose catch block only logs
handleMessage_swallowsError(conns, clientId, result) ==
  IF result.status = "error" THEN <<>>
  ELSE CASE result.type = "CREATE_TASK" -> handleCreateTask(conns, clientId, result)
         [] result.type = "UPDATE_TASK" -> handleUpdateTask(conns, clientId, result)
         [] result.type = "MOVE_TASK" -> handleMoveTask(conns, clientId, result)
         [] result.type = "DELETE_TASK" -> handleDeleteTask(conns, clientId, result)

\* handleMessage for a decoded message whose service call has returned or thrown
handleMessage(conns, clientId, result) ==
  IF result.status = "error"
  THEN sendTo(conns, clientId, "ERROR",
              [code |-> "INTERNAL_ERROR", message |-> NotFoundMessage(result.taskId)])
  ELSE CASE result.type = "CREATE_TASK" -> handleCreateTask(conns, clientId, result)
         [] result.type = "UPDATE_TASK" -> handleUpdateTask(conns, clientId, result)
         [] result.type = "MOVE_TASK" -> handleMoveTask(conns, clientId, result)
         [] result.type = "DELETE_TASK" -> handleDeleteTask(conns, clientId, result)

\* ---- frames that are no ClientMessage
Frames == {"{oops", "null", "{}", "{type:NOPE}"}

\* JSON.parse: throws on text that is not JSON, else the value
JSONparse(raw) ==
  CASE raw = "{oops" -> [ok |-> FALSE, kind |-> "none", type |-> "undefined"]
    [] raw = "null" -> [ok |-> TRUE, kind |-> "null", type |-> "undefined"]
    [] raw = "{}" -> [ok |-> TRUE, kind |-> "object", type |-> "undefined"]
    [] OTHER -> [ok |-> TRUE, kind |-> "object", type |-> "NOPE"]

\* message.type: a TypeError on null, undefined on values without the property
TypeThrows(message) == message.kind = "null"

\* handleMessage for such a frame.  On null the switch throws, and the catch
\* block reads message.type for its log line before it sends, so it throws
\* again: the rejection is logged by the socket's message callback and nothing
\* is sent
handleFrame(conns, clientId, raw) ==
  LET message == JSONparse(raw)
  IN IF ~message.ok
     THEN sendTo(conns, clientId, "ERROR", [code |-> "INVALID_JSON"])
     ELSE IF TypeThrows(message)
          THEN <<>>
          ELSE sendTo(conns, clientId, "ERROR",
                      [code |-> "UNKNOWN_MESSAGE_TYPE", message |-> message.type])

\* ---- router steps
\* the connection callback: register, INITIAL_STATE to the new session,
\* PRESENCE_UPDATE to the others
Connect(c) ==
  /\ c \notin connections
  /\ pc[c] = "idle"
  /\ connections' = connections \cup {c}
  /\ sent' = Sent(c, "CONNECT",
                  sendTo(connections', c, "INITIAL_STATE",
                         [tasks |-> getAllTasks(tasks), presence |-> connections'])
                  \o broadcast(connections', "PRESENCE_UPDATE", connections', c))
  /\ UNCHANGED <<tasks, nextId, pc, lockId, cur, rebRows, res, writes, serverVars, auxVars>>

\* the close callback: unregister, PRESENCE_UPDATE to the remaining sessions;
\* a handler of the session that is still running carries on
Disconnect(c) ==
  /\ c \in connections
  /\ connections' = connections \ {c}
  /\ sent' = Sent(c, "CLOSE", broadcastAll(connections', "PRESENCE_UPDATE", connections'))
  /\ UNCHANGED <<tasks, nextId, pc, lockId, cur, rebRows, res, writes, serverVars, auxVars>>

\* a frame that is no ClientMessage arrives on session c
BadFrame(c, raw) ==
  /\ c \in connections
  /\ sent' = Sent(c, "FRAME", handleFrame(connections, c, raw))
  /\ UNCHANGED <<tasks, nextId, pc, lockId, cur, rebRows, res, writes, connections, serverVars, auxVars>>

\* a message arrives on session c and its handler takes its first step A,
\* which does not return yet
Starts(c, A) == c \in connections /\ A /\ UNCHANGED <<connections, sent, serverVars, auxVars>>

\* a message arrives on session c and its service call returns in step A
Handles(c, A) ==
  /\ c \in connections
  /\ A
  /\ sent' = Sent(c, res'.type, handleMessage(connections, c, res'))
  /\ UNCHANGED <<connections, serverVars, auxVars>>

\* the service call of a running handler of c returns in step A
Returns(c, A) ==
  /\ A
  /\ sent' = Sent(c, res'.type, handleMessage(connections, c, res'))
  /\ UNCHANGED <<connections, serverVars, auxVars>>

\* handleMoveTask after needsRebalance: rebalanceColumn, then REBALANCED to all
Rebalanced(c) ==
  /\ RebalanceCommit(c)
  /\ sent' = Sent(c, "REBALANCE",
                  broadcastAll(connections, "REBALANCED",
                               [tasks |-> IF tasks' = tasks THEN <<>>
                                          ELSE rebalanceUpdates(tasks, rebRows[c])]))
  /\ UNCHANGED <<connections, serverVars, auxVars>>

\* the payloads sessions send in the router model
RouterCreatePayloads == {CreateReq(" ", "todo", 4)}

RouterUpdatePayloads(c) ==
  UNION {{UpdateReq("A", t, b, F) : b \in BaseVersions,
                                   F \in {{"title"}, {"title", "description"}}} :
         t \in TaskIds}

RouterMovePayloads ==
  UNION {{MoveReq(t, b, columnId, 4) : b \in BaseVersions, columnId \in ClientColumns} :
         t \in TaskIds}

RouterDeletePayloads == {DeleteReq(t, 1) : t \in TaskIds}

RouterNext ==
  \/ \E c \in Clients : Connect(c)
  \/ \E c \in Clients : Disconnect(c)
  \/ \E c \in Clients, raw \in Frames : BadFrame(c, raw)
  \/ \E c \in Clients, payload \in RouterCreatePayloads : Handles(c, CreateTask(c, payload))
  \/ \E c \in Clients, t \in TaskIds : Starts(c, LockRow(c, t))
  \/ \E c \in Clients : \E payload \in MissingRowPayloads(c) : Handles(c, NotFound(c, payload))
  \/ \E c \in Clients : \E payload \in RouterUpdatePayloads(c) : Returns(c, UpdateCommit(c, payload))
  \/ \E c \in Clients, payload \in RouterMovePayloads : Returns(c, MoveCommit(c, payload))
  \/ \E c \in Clients, payload \in RouterDeletePayloads : Handles(c, DeleteTask(c, payload))
  \/ \E c \in Clients : Service(RebalanceLock(c))
  \/ \E c \in Clients : Rebalanced(c)

RouterSpec == Init /\ [][RouterNext]_vars

\* ============================================================ filled board
\* moveTask on a board that already holds several tasks: the tables of
\* BoardRows tasks, each as createTask stored it with a position the client
\* sent, moves of task 1 by client A and of task 2 by client B, and the
\* rebalances the moves ask for
BoardRows == 4

BoardPositions == {4, 5, 6, 8}

BoardTables ==
  [1..BoardRows ->
     {NewRow(" ", "", columnId, position) :
        columnId \in ClientColumns, position \in BoardPositions}]

BoardMoves ==
  {MoveReq(1, b, columnId, position) :
     b \in {0, 1}, columnId \in ClientColumns, position \in {4, 7}}

\* the task each client moves
BoardTask(c) == IF c = "A" THEN 1 ELSE 2

\* client B moves task 2, once, to the column it chooses
BoardMovesOf(c) ==
  IF c = "A" THEN BoardMoves
  ELSE {MoveReq(2, 1, columnId, 8) : columnId \in ClientColumns}

BoardInit ==
  /\ tasks \in BoardTables
  /\ nextId = BoardRows + 1
  /\ pc = [c \in Clients |-> "idle"]
  /\ lockId = [c \in Clients |-> 0]
  /\ cur = [c \in Clients |-> NoRow]
  /\ rebRows = [c \in Clients |-> <<>>]
  /\ res = NoRes
  /\ writes = 0
  /\ connections = {}
  /\ sent = NoSent
  /\ sockets = [s \in Sockets |-> NoSocket]
  /\ registry = [id \in {} |-> ""]
  /\ presence = {}
  /\ outbox = [s \in Sockets |-> <<>>]
  /\ inflight = [s \in Sockets |-> <<>>]
  /\ frames = [s \in Sockets |-> 0]
  /\ handler = [h \in Clients |-> NoHandler]
  /\ split = NoSplit
  /\ store = NoStore
  /\ delivered = NoMessage
  /\ txn = [c \in Clients |-> NoTxn]

BoardNext ==
  \/ \E c \in Clients : Service(LockRow(c, BoardTask(c)))
  \/ \E c \in Clients : \E payload \in BoardMovesOf(c) : Service(MoveCommit(c, payload))
  \/ \E c \in Clients : Service(RebalanceLock(c))
  \/ \E c \in Clients : Service(RebalanceCommit(c))

BoardSpec == BoardInit /\ [][BoardNext]_vars

\* ============================================================= client store
StoreInit ==
  /\ store = NoStore
  /\ delivered = NoMessage
  /\ txn = [c \in Clients |-> NoTxn]
  /\ split = NoSplit
  /\ ServerAtStart

\* the user adds a task: the store gets the optimistic copy under a temp id
OptimisticCreate(tempId) ==
  /\ Len(store.tasks) < MaxStore
  /\ \A i \in 1..Len(store.tasks) : store.tasks[i].id # tempId
  /\ store' = optimisticCreateTask(store, tempId, "todo", 2 * INITIAL_STEP)
  /\ UNCHANGED <<delivered, split, txn, dbVars, connections, sent, serverVars>>

\* ws.onmessage: the next server message is parsed and handled
OnMessage(msg) ==
  /\ store' = handleServerMessage(store, msg)
  /\ delivered' = msg
  /\ UNCHANGED <<split, txn, dbVars, connections, sent, serverVars>>

StoreNext ==
  \/ \E tempId \in TempIds : OptimisticCreate(tempId)
  \/ \E msg \in ServerMessages : OnMessage(msg)

StoreSpec == StoreInit /\ [][StoreNext]_vars

\* ============================================================ transactions
\* The service calls statement by statement, as PostgreSQL runs them at READ
\* COMMITTED: BEGIN, the locking SELECT (its snapshot fixes the rows and their
\* order; the row locks are then taken one row at a time, each waiting for
\* the transaction that holds the row), the UPDATEs or the DELETE (seen by no
\* other transaction before COMMIT), and COMMIT or ROLLBACK.
TxnRows == 3

\* task 1 is in 'todo'; the other tasks are in 'done', close to each other
TxnTables ==
  [1..TxnRows ->
     {NewRow(" ", "", "done", position) : position \in {4, 5, 8}}
     \cup {NewRow(" ", "", "todo", 4)}]

TxnPayloads(c) ==
  IF c = "A"
  THEN {MoveReq(1, 1, "done", 4), UpdateReq("A", 3, 1, {"title"}),
        UpdateReq("A", TxnRows + 1, 1, {"title"}), CreateReq(" ", "done", 0)}
  ELSE {MoveReq(2, 1, "done", 6), DeleteReq(3, 1), DeleteReq(TxnRows + 1, 1)}

TxnKind(payload) ==
  CASE payload.type = "CREATE_TASK" -> "create"
    [] payload.type = "UPDATE_TASK" -> "update"
    [] payload.type = "MOVE_TASK" -> "move"
    [] payload.type = "DELETE_TASK" -> "delete"

\* the rows whose lock the transaction holds
TxnHolds(c, t) ==
  \E i \in 1..Len(txn[c].read) : txn[c].rows[i] = t

\* the row whose lock the transaction takes next
NextRow(c) == txn[c].rows[Len(txn[c].read) + 1]

\* the transaction is in its locking SELECT and the next row is held
Waiting(c) ==
  /\ txn[c].stage = "lock"
  /\ \E d \in Clients \ {c} : TxnHolds(d, NextRow(c))

\* a lock manager that never looks for cycles
WaitCycle_undetected(c) == FALSE

\* the deadlock check of the lock manager: the transaction waits for a row of
\* a transaction that waits for a row of this one
WaitCycle(c) ==
  /\ Waiting(c)
  /\ \E d \in Clients \ {c} :
       /\ TxnHolds(d, NextRow(c))
       /\ Waiting(d)
       /\ TxnHolds(c, NextRow(d))

\* the rows the locking SELECT returned: those that still matched its WHERE
\* clause when their lock was granted
ExistingRows(c) == SelectSeq(txn[c].read, LAMBDA r : r.match)

RECURSIVE ApplyWrites(_, _)
ApplyWrites(tbl, pending) ==
  IF pending = <<>> THEN tbl
  ELSE LET w == Head(pending)
           next == IF w.delete
                   THEN [u \in DOMAIN tbl \ {w.id} |-> tbl[u]]
                   ELSE IF w.id \in DOMAIN tbl
                        THEN [tbl EXCEPT ![w.id] = w.row]
                        ELSE (w.id :> w.row) @@ tbl
       IN ApplyWrites(next, Tail(pending))

\* a withTransaction whose catch block does not roll back: the writes made so
\* far are committed with the next transaction on the pool client
withTransaction_noRollback(tbl, pending, failed) == ApplyWrites(tbl, pending)

\* the table after withTransaction: COMMIT makes the writes visible, and
\* ROLLBACK in the catch block discards them
withTransaction(tbl, pending, failed) ==
  IF failed THEN tbl ELSE ApplyWrites(tbl, pending)

TxnInit ==
  /\ tasks \in {tbl \in TxnTables : tbl[1].columnId = "todo" /\
                  \A t \in 2..TxnRows : tbl[t].columnId = "done"}
  /\ nextId = TxnRows + 1
  /\ pc = [c \in Clients |-> "idle"]
  /\ lockId = [c \in Clients |-> 0]
  /\ cur = [c \in Clients |-> NoRow]
  /\ rebRows = [c \in Clients |-> <<>>]
  /\ res = NoRes
  /\ writes = 0
  /\ connections = {}
  /\ sent = NoSent
  /\ sockets = [s \in Sockets |-> NoSocket]
  /\ registry = [id \in {} |-> ""]
  /\ presence = {}
  /\ outbox = [s \in Sockets |-> <<>>]
  /\ inflight = [s \in Sockets |-> <<>>]
  /\ frames = [s \in Sockets |-> 0]
  /\ handler = [h \in Clients |-> NoHandler]
  /\ split = NoSplit
  /\ store = NoStore
  /\ delivered = NoMessage
  /\ txn = [c \in Clients |-> NoTxn]

TxnFrame ==
  UNCHANGED <<pc, lockId, cur, rebRows, connections, sent, serverVars,
              split, store, delivered>>

\* the update and move transactions that are open or may still commit a write
OpenWrites ==
  Cardinality({c \in Clients : txn[c].kind \in {"update", "move"}})

\* getPool().connect(), BEGIN
TxnBegin(c, payload) ==
  /\ txn[c].kind = "none"
  /\ payload.type \in {"UPDATE_TASK", "MOVE_TASK"} => writes + OpenWrites < MaxWrites
  /\ payload.type = "CREATE_TASK" => nextId <= TxnRows + 1
  /\ txn' = [txn EXCEPT ![c] = [NoTxn EXCEPT !.kind = TxnKind(payload),
                                             !.payload = payload, !.stage = "begin"]]
  /\ UNCHANGED <<tasks, nextId, res, writes>>
  /\ TxnFrame

\* the first statement starts: its snapshot fixes the rows it will lock.
\* SELECT ... WHERE id = $1 FOR UPDATE and DELETE ... WHERE id = $1 find one
\* row or none; SELECT ... WHERE column_id = $1 ORDER BY position FOR UPDATE
\* finds the rows of the column in position order
TxnSelect(c) ==
  /\ txn[c].stage = "begin"
  /\ \E rows \in IF txn[c].kind = "rebalance"
                 THEN OrderedRows(tasks, ColumnTasks(tasks, txn[c].columnId))
                 ELSE IF txn[c].payload.taskId \in DOMAIN tasks
                      THEN {<<[id |-> txn[c].payload.taskId]>>}
                      ELSE {<<>>} :
       txn' = [txn EXCEPT ![c].rows = [i \in 1..Len(rows) |-> rows[i].id],
                          ![c].stage = IF rows = <<>> THEN "write" ELSE "lock"]
  /\ UNCHANGED <<tasks, nextId, res, writes>>
  /\ TxnFrame

\* the lock of the next row is granted: the row is read again as committed,
\* and it is returned if it still exists and still matches the WHERE clause
TxnLock(c) ==
  /\ txn[c].stage = "lock"
  /\ ~Waiting(c)
  /\ LET t == NextRow(c)
         match == /\ t \in DOMAIN tasks
                  /\ txn[c].kind = "rebalance" => tasks[t].columnId = txn[c].columnId
         read == Append(txn[c].read,
                        [id |-> t, match |-> match,
                         row |-> IF t \in DOMAIN tasks THEN tasks[t] ELSE NoRow])
     IN txn' = [txn EXCEPT ![c].read = read,
                           ![c].stage = IF Len(read) = Len(txn[c].rows)
                                        THEN "write" ELSE "lock"]
  /\ UNCHANGED <<tasks, nextId, res, writes>>
  /\ TxnFrame

\* updateTask and moveTask: if (!lockRows.length) throw; the catch block of
\* withTransaction rolls back and rethrows
TxnNotFound(c) ==
  /\ txn[c].stage = "write"
  /\ txn[c].kind \in {"update", "move"}
  /\ ExistingRows(c) = <<>>
  /\ tasks' = withTransaction(tasks, txn[c].pending, TRUE)
  /\ res' = Failed(txn[c].payload)
  /\ txn' = [txn EXCEPT ![c] = RolledBack(txn[c])]
  /\ UNCHANGED <<nextId, writes>>
  /\ TxnFrame

\* the statements after the locking read.  createTask: the positionAtEnd
\* query when the client sent no position, and the INSERT, which draws the
\* id from the sequence.  updateTask: the UPDATE.  moveTask:
\* the UPDATE and the neighbours query, which sees the committed rows and the
\* transaction's own write.  deleteTask: the DELETE of the row it found and
\* locked, if it found one.  rebalanceColumn: the
\* UPDATE of the next row of existingRows.
TxnWrite(c) ==
  /\ txn[c].stage = "write"
  /\ LET payload == txn[c].payload
         t == payload.taskId
         existing == ExistingRows(c)
     IN CASE txn[c].kind = "create" ->
               LET position == IF payload.position > 0 THEN payload.position
                               ELSE positionAtEnd(tasks, payload.columnId)
                   row == InsertRow(payload, position)
               IN txn' = [txn EXCEPT
                    ![c].pending = <<[id |-> nextId, row |-> row, delete |-> FALSE]>>,
                    ![c].result = [task |-> row, conflict |-> NoConflict,
                                   needsRebalance |-> FALSE, deleted |-> FALSE],
                    ![c].stage = "commit"]
          [] txn[c].kind = "update" ->
               /\ existing # <<>>
               /\ LET r == updateTask(tasks[t], existing[1].row, payload)
                  IN txn' = [txn EXCEPT
                       ![c].pending = IF r.write
                                      THEN <<[id |-> t, row |-> r.row, delete |-> FALSE]>>
                                      ELSE <<>>,
                       ![c].result = [task |-> r.task, conflict |-> r.conflict,
                                      needsRebalance |-> FALSE, deleted |-> FALSE],
                       ![c].stage = "commit"]
          [] txn[c].kind = "move" ->
               /\ existing # <<>>
               /\ LET w == moveTask(tasks, t, existing[1].row, payload, {})
                      seen == IF w.write THEN [tasks EXCEPT ![t] = w.row] ELSE tasks
                  IN \E neighbours \in Neighbours(seen, t, w.row.columnId, w.row.position) :
                       LET r == moveTask(tasks, t, existing[1].row, payload, neighbours)
                       IN txn' = [txn EXCEPT
                            ![c].pending = IF r.write
                                           THEN <<[id |-> t, row |-> r.row, delete |-> FALSE]>>
                                           ELSE <<>>,
                            ![c].result = [task |-> r.task, conflict |-> r.conflict,
                                           needsRebalance |-> r.needsRebalance,
                                           deleted |-> FALSE],
                            ![c].stage = "commit"]
          [] txn[c].kind = "delete" ->
               LET r == IF existing = <<>>
                        THEN [deleted |-> FALSE, task |-> NoRow]
                        ELSE deleteTask(tasks, payload)
               IN txn' = [txn EXCEPT
                    ![c].pending = IF r.deleted
                                   THEN <<[id |-> t, row |-> r.task, delete |-> TRUE]>>
                                   ELSE <<>>,
                    ![c].result = [task |-> r.task, conflict |-> NoConflict,
                                   needsRebalance |-> FALSE, deleted |-> r.deleted],
                    ![c].stage = "commit"]
          [] txn[c].kind = "rebalance" ->
               LET i == Len(txn[c].pending) + 1
               IN IF i > Len(existing)
                  THEN txn' = [txn EXCEPT ![c].stage = "commit"]
                  ELSE txn' = [txn EXCEPT ![c].pending =
                                 Append(@, [id |-> existing[i].id, delete |-> FALSE,
                                            row |-> rebalanceRow(tasks[existing[i].id],
                                                                 existing[i].row, i)])]
  /\ nextId' = IF txn[c].kind = "create" THEN nextId + 1 ELSE nextId
  /\ UNCHANGED <<tasks, res, writes>>
  /\ TxnFrame

\* COMMIT.  handleMoveTask then awaits rebalanceColumn when needsRebalance is
\* set: a second transaction, for the column of the task just moved
TxnCommit(c) ==
  /\ txn[c].stage = "commit"
  /\ tasks' = withTransaction(tasks, txn[c].pending, FALSE)
  /\ res' = IF txn[c].kind = "rebalance" THEN res
            ELSE Ok(txn[c].payload,
                    IF txn[c].kind = "create" THEN txn[c].pending[1].id
                    ELSE txn[c].payload.taskId,
                    txn[c].result, txn[c].result.deleted)
  /\ writes' = IF txn[c].kind \in {"update", "move"} /\ txn[c].pending # <<>>
               THEN writes + 1 ELSE writes
  /\ UNCHANGED nextId
  /\ txn' = [txn EXCEPT ![c] =
               IF txn[c].kind = "move" /\ txn[c].result.needsRebalance
               THEN [NoTxn EXCEPT !.kind = "rebalance", !.payload = txn[c].payload,
                                  !.columnId = txn[c].result.task.columnId,
                                  !.stage = "begin",
                                  !.last = Ended(txn[c], "committed")]
               ELSE [NoTxn EXCEPT !.last = Ended(txn[c], "committed")]]
  /\ TxnFrame

\* a statement of the transaction (BEGIN and COMMIT included) fails: the
\* catch block of withTransaction issues ROLLBACK and rethrows
TxnThrow(c) ==
  /\ txn[c].kind # "none"
  /\ tasks' = withTransaction(tasks, txn[c].pending, TRUE)
  /\ res' = Failed(txn[c].payload)
  /\ txn' = [txn EXCEPT ![c] = RolledBack(txn[c])]
  /\ UNCHANGED <<nextId, writes>>
  /\ TxnFrame

\* the lock manager finds the transaction in a wait cycle and fails its
\* statement ("deadlock detected"): ROLLBACK, rethrow
TxnDeadlock(c) ==
  /\ WaitCycle(c)
  /\ tasks' = withTransaction(tasks, txn[c].pending, TRUE)
  /\ res' = Failed(txn[c].payload)
  /\ txn' = [txn EXCEPT ![c] = RolledBack(txn[c])]
  /\ UNCHANGED <<nextId, writes>>
  /\ TxnFrame

\* the steps a transaction takes without anything failing from outside
TxnProgress(c) ==
  \/ TxnSelect(c)
  \/ TxnLock(c)
  \/ TxnNotFound(c)
  \/ TxnWrite(c)
  \/ TxnCommit(c)
  \/ TxnDeadlock(c)

TxnNext ==
  \/ \E c \in Clients : \E payload \in TxnPayloads(c) : TxnBegin(c, payload)
  \/ \E c \in Clients : TxnSelect(c)
  \/ \E c \in Clients : TxnLock(c)
  \/ \E c \in Clients : TxnNotFound(c)
  \/ \E c \in Clients : TxnWrite(c)
  \/ \E c \in Clients : TxnCommit(c)
  \/ \E c \in Clients : TxnThrow(c)
  \/ \E c \in Clients : TxnDeadlock(c)

TxnSpec == TxnInit /\ [][TxnNext]_vars

\* ---- the transactions that take row locks, without failures from outside
\* one board: task 1 in 'todo', the others in 'done' at 1.0, 1.25, ...
LockInit ==
  /\ TxnInit
  /\ \A t \in 2..TxnRows : tasks[t].position = t + 2

LockPayloads(c) ==
  IF c = "A"
  THEN {MoveReq(1, 1, "done", 4), UpdateReq("A", 3, 1, {"title"})}
  ELSE {MoveReq(2, 1, "done", 6), DeleteReq(3, 1)}

LockNext ==
  \/ \E c \in Clients : \E payload \in LockPayloads(c) : TxnBegin(c, payload)
  \/ \E c \in Clients : TxnSelect(c)
  \/ \E c \in Clients : TxnLock(c)
  \/ \E c \in Clients : TxnNotFound(c)
  \/ \E c \in Clients : TxnWrite(c)
  \/ \E c \in Clients : TxnCommit(c)
  \/ \E c \in Clients : TxnDeadlock(c)

\* the event loop runs every ready continuation, and a lock that is released
\* goes to a transaction waiting for it
LockSpec ==
  LockInit /\ [][LockNext]_vars /\ \A c \in Clients : SF_vars(TxnProgress(c))

\* ================================================================== server
\* the connection callback up to its await: registerConnection, addUser, and
\* the getAllTasks query is sent
Accept(s, id) ==
  /\ sockets[s].stage = "new"
  /\ sockets' = [sockets EXCEPT ![s] = [clientId |-> id, stage |-> "query",
                                        open |-> TRUE, snapshot |-> <<>>]]
  /\ registry' = (id :> s) @@ registry
  /\ presence' = presence \cup {id}
  /\ UNCHANGED <<dbVars, auxVars, connections, sent, outbox, inflight, frames, handler>>

\* the database runs the SELECT of getAllTasks
SnapshotQuery(s) ==
  /\ sockets[s].stage = "query"
  /\ sockets' = [sockets EXCEPT ![s].stage = "fetched",
                                ![s].snapshot = getAllTasks(tasks)]
  /\ UNCHANGED <<dbVars, auxVars, connections, sent, registry, presence, outbox,
                 inflight, frames, handler>>

\* the connection callback after its await: INITIAL_STATE to the clientId,
\* PRESENCE_UPDATE to the others, then ws.on('message') and ws.on('close')
Accepted(s) ==
  /\ sockets[s].stage = "fetched"
  /\ LET id == sockets[s].clientId
         conns == Reachable(registry, sockets)
     IN outbox' = Deliver(outbox, registry,
                          sendTo(conns, id, "INITIAL_STATE",
                                 [tasks |-> sockets[s].snapshot, presence |-> presence])
                          \o broadcast(conns, "PRESENCE_UPDATE", presence, id))
  /\ sockets' = [sockets EXCEPT ![s].stage = "listening", ![s].snapshot = <<>>]
  /\ UNCHANGED <<dbVars, auxVars, connections, sent, registry, presence,
                 inflight, frames, handler>>

\* the socket closes.  The close callback runs only if it is attached by then:
\* unregisterConnection(clientId), removeUser(clientId), PRESENCE_UPDATE to all
Close(s) ==
  /\ sockets[s].open
  /\ sockets' = [sockets EXCEPT ![s].open = FALSE]
  /\ IF sockets[s].stage = "listening"
     THEN LET id == sockets[s].clientId
          IN /\ registry' = [i \in DOMAIN registry \ {id} |-> registry[i]]
             /\ presence' = presence \ {id}
             /\ outbox' = Deliver(outbox, registry',
                                  broadcastAll(Reachable(registry', sockets'),
                                               "PRESENCE_UPDATE", presence'))
     ELSE UNCHANGED <<registry, presence, outbox>>
  /\ UNCHANGED <<dbVars, auxVars, connections, sent, inflight, frames, handler>>

\* ---- the frames the clients send
MaxFrames == 2

\* the operations of the frames
ServerOps ==
  {CreateReq(" ", "todo", 4), UpdateReq("A", 1, 1, {"title"})}

\* the offline queues a client replays when its socket opens
ReplayQueues ==
  {<<CreateReq(" ", "todo", 4), UpdateReq("A", 1, 1, {"title"})>>,
   <<UpdateReq("A", 1, 1, {"title"}), MoveReq(1, 1, "done", 4)>>}

Frame(replay, ops) == [replay |-> replay, ops |-> ops]

\* useWebSocket: ws.onopen sends the offline queue as one REPLAY_QUEUE, before
\* any other frame; afterwards the client sends its mutations one by one
ClientFrames(s) ==
  {Frame(FALSE, <<op>>) : op \in ServerOps}
  \cup (IF frames[s] = 0 THEN {Frame(TRUE, q) : q \in ReplayQueues} ELSE {})

ClientSend(s, frame) ==
  /\ sockets[s].open
  /\ frames["s1"] + frames["s2"] < MaxFrames
  /\ frames' = [frames EXCEPT ![s] = @ + 1]
  /\ inflight' = [inflight EXCEPT ![s] = Append(@, frame)]
  /\ UNCHANGED <<dbVars, auxVars, connections, sent, sockets, registry, presence, outbox, handler>>

\* ---- handleMessage calls
Busy(h) == handler[h].ops # <<>>

\* the operation the call is handling
Op(h) == Head(handler[h].ops)

\* the call is between two awaits of a service step
Ready(h) == Busy(h) /\ handler[h].result = NoRes

\* a frame arrives on socket s.  With the message callback attached,
\* handleMessage is called (not awaited); REPLAY_QUEUE makes it loop over the
\* operations.  Before the callback is attached, or after the close, the
\* 'message' event has no listener and the frame is lost.
Arrive(s) ==
  /\ inflight[s] # <<>>
  /\ inflight' = [inflight EXCEPT ![s] = Tail(@)]
  /\ IF sockets[s].stage = "listening" /\ sockets[s].open
     THEN \E h \in Clients :
            /\ ~Busy(h)
            /\ pc[h] = "idle"
            /\ handler' = [handler EXCEPT ![h] =
                             [socket |-> s, clientId |-> sockets[s].clientId,
                              ops |-> Head(inflight[s]).ops, result |-> NoRes]]
     ELSE UNCHANGED handler
  /\ UNCHANGED <<dbVars, auxVars, connections, sent, sockets, registry, presence, outbox, frames>>

\* a service step of the call's current operation that does not return yet
Step(h, A) ==
  /\ Ready(h)
  /\ A
  /\ UNCHANGED <<auxVars, connections, sent, serverVars>>

\* the service step in which the call's current operation returns or throws:
\* the call resumes later, with this result
Return(h, A) ==
  /\ Ready(h)
  /\ A
  /\ handler' = [handler EXCEPT ![h].result = res']
  /\ UNCHANGED <<auxVars, connections, sent, sockets, registry, presence, outbox, inflight, frames>>

\* a replay loop that stops at the first operation that fails or is rejected
Respond_abortsReplay(h) ==
  /\ Busy(h)
  /\ handler[h].result # NoRes
  /\ outbox' = Deliver(outbox, registry,
                       handleMessage(Reachable(registry, sockets),
                                     handler[h].clientId, handler[h].result))
  /\ handler' = [handler EXCEPT
                   ![h] = IF \/ Len(@.ops) = 1
                             \/ @.result.status = "error"
                             \/ @.result.conflict.resolution = "REJECTED"
                          THEN NoHandler
                          ELSE [@ EXCEPT !.ops = Tail(@), !.result = NoRes]]
  /\ UNCHANGED <<dbVars, auxVars, connections, sent, sockets, registry, presence, inflight, frames>>

\* the call resumes after its await: the sends of the handler; the operation
\* is done unless a rebalance follows
Respond(h) ==
  /\ Busy(h)
  /\ handler[h].result # NoRes
  /\ outbox' = Deliver(outbox, registry,
                       handleMessage(Reachable(registry, sockets),
                                     handler[h].clientId, handler[h].result))
  /\ handler' = [handler EXCEPT
                   ![h] = IF pc[h] = "rebalance"
                          THEN [@ EXCEPT !.result = NoRes]
                          ELSE IF Len(@.ops) = 1 THEN NoHandler
                               ELSE [@ EXCEPT !.ops = Tail(@), !.result = NoRes]]
  /\ UNCHANGED <<dbVars, auxVars, connections, sent, sockets, registry, presence, inflight, frames>>

ServerNext ==
  \/ \E s \in Sockets : \E id \in ClientIds(s) : Accept(s, id)
  \/ \E s \in Sockets : SnapshotQuery(s)
  \/ \E s \in Sockets : Accepted(s)
  \/ \E s \in Sockets : Close(s)
  \/ \E s \in Sockets : \E frame \in ClientFrames(s) : ClientSend(s, frame)
  \/ \E s \in Sockets : Arrive(s)
  \/ \E h \in Clients : Ready(h) /\ Op(h).type = "CREATE_TASK"
                        /\ Return(h, CreateTask(h, Op(h)))
  \/ \E h \in Clients : Ready(h) /\ Op(h).type \in {"UPDATE_TASK", "MOVE_TASK"}
                        /\ Step(h, LockRow(h, Op(h).taskId))
  \/ \E h \in Clients : Ready(h) /\ Op(h).type \in {"UPDATE_TASK", "MOVE_TASK"}
                        /\ Return(h, NotFound(h, Op(h)))
  \/ \E h \in Clients : Ready(h) /\ Op(h).type = "UPDATE_TASK"
                        /\ Return(h, UpdateCommit(h, Op(h)))
  \/ \E h \in Clients : Ready(h) /\ Op(h).type = "MOVE_TASK"
                        /\ Return(h, MoveCommit(h, Op(h)))
  \/ \E h \in Clients : Respond(h)

ServerSpec == Init /\ [][ServerNext]_vars

\* =================================================================== claims
FieldNames == {"title", "description", "columnId", "position"}

\* what a request asks for, read off the payload
Requested(p) == IF p.type = "MOVE_TASK" THEN {"columnId", "position"} ELSE DOMAIN p.changes

Proposed(p, f) ==
  IF p.type = "MOVE_TASK"
  THEN (IF f = "columnId" THEN p.columnId ELSE p.position)
  ELSE p.changes[f]

\* field f of row was written after the client's observation at version b
Stale(row, b, f) == row[FIELD_VERSION_MAP[f]] > b

MergedSet(row, p) == {f \in Requested(p) : ~Stale(row, p.baseVersion, f)}

RejectedSet(row, p) == {f \in Requested(p) : Stale(row, p.baseVersion, f)}

FullyRejected(row, p) == MergedSet(row, p) = {} /\ RejectedSet(row, p) # {}

\* the requests client c can be committing while it holds the lock on a row
LockedUpdates(c) ==
  IF pc[c] = "locked" THEN {p \in UpdatePayloads(c) : p.taskId = lockId[c]} ELSE {}

LockedMoves(c) ==
  IF pc[c] = "locked" THEN {p \in MovePayloads : p.taskId = lockId[c]} ELSE {}

\* the step ends client c's transaction on the row it locked
Commits(c, type) == pc[c] = "locked" /\ pc'[c] # "locked" /\ res'.type = type

InOrder(F) == SelectSeq(FieldOrder, LAMBDA f : f \in F)

\* C1: every stored task has each per-field version <= its version, in every
\* committed state of every interleaving of create, update, move, delete and
\* rebalance
C1_FieldVersionsBounded ==
  \A t \in DOMAIN tasks :
    \A f \in FieldNames : tasks[t][FIELD_VERSION_MAP[f]] <= tasks[t].version

\* a task that was edited, then moved, then rebalanced
C1_Witness ==
  \E t \in DOMAIN tasks :
    /\ tasks[t].titleVersion = 2
    /\ tasks[t].columnVersion = 3
    /\ tasks[t].positionVersion = 4
    /\ tasks[t].version = 4

\* C2: an updateTask that is not fully rejected raises version by exactly one;
\* each merged field of {title, description} takes the client's value and its
\* per-field version becomes the new version; every other field, columnId and
\* position included, keeps its value and its per-field version
C2_UpdateWrites ==
  [][\A c \in Clients : Commits(c, "UPDATE_TASK") => \A p \in LockedUpdates(c) :
       (UpdateCommit(c, p) /\ p.taskId \in DOMAIN tasks
          /\ ~FullyRejected(tasks[p.taskId], p))
       => LET old == tasks[p.taskId]
              new == tasks'[p.taskId]
          IN /\ new.version = old.version + 1
             /\ \A f \in FieldNames :
                  IF f \in MergedSet(old, p)
                  THEN /\ new[f] = Proposed(p, f)
                       /\ new[FIELD_VERSION_MAP[f]] = new.version
                  ELSE /\ new[f] = old[f]
                       /\ new[FIELD_VERSION_MAP[f]] = old[FIELD_VERSION_MAP[f]]]_vars

\* a partial merge has been committed: description merged at version 3 while
\* the title written at version 2 was kept
C2_Witness ==
  /\ res.type = "UPDATE_TASK"
  /\ res.status = "ok"
  /\ res.conflict.resolution = "MERGED"
  /\ res.conflict.rejectedFields = <<"title">>
  /\ res.taskId \in DOMAIN tasks
  /\ tasks[res.taskId] = res.task
  /\ res.task.version = 3
  /\ res.task.titleVersion = 2
  /\ res.task.descriptionVersion = 3
  /\ res.task.columnVersion = 1

\* C3: a moveTask that merges exactly one of columnId and position leaves the
\* rejected field's value and per-field version as they were, and stamps the
\* merged field with the new version
C3_MoveRejectedFieldKept ==
  [][\A c \in Clients : Commits(c, "MOVE_TASK") => \A p \in LockedMoves(c) :
       (MoveCommit(c, p) /\ p.taskId \in DOMAIN tasks
          /\ Cardinality(MergedSet(tasks[p.taskId], p)) = 1)
       => LET old == tasks[p.taskId]
              new == tasks'[p.taskId]
          IN \A f \in {"columnId", "position"} :
               IF f \in MergedSet(old, p)
               THEN new[FIELD_VERSION_MAP[f]] = new.version
               ELSE /\ new[f] = old[f]
                    /\ new[FIELD_VERSION_MAP[f]] = old[FIELD_VERSION_MAP[f]]]_vars

\* the values a change set proposes in the check of analyseConflict
SampleChanges(F) ==
  [f \in F |-> CASE f = "title" -> "A"
                 [] f = "description" -> "A-desc"
                 [] f = "columnId" -> "done"
                 [] OTHER -> 4]

Range(s) == {s[i] : i \in 1..Len(s)}

\* C4: for every stored task, every baseVersion and every change set over the
\* four fields, analyseConflict merges field f, with its proposed value, iff
\* the task's per-field version of f is <= baseVersion and rejects it
\* otherwise; merged and rejected fields are disjoint and together are the
\* requested fields; hasConflict iff some field is rejected; fullyRejected iff
\* none is merged and some is rejected
C4_AnalyseConflict ==
  \A t \in DOMAIN tasks : \A b \in BaseVersions : \A F \in SUBSET FieldNames :
    LET current == tasks[t]
        changes == SampleChanges(F)
        a == analyseConflict(current, b, changes)
        merged == Range(a.mergedFields)
        rejected == Range(a.rejectedFields)
    IN /\ \A f \in F :
            IF current[FIELD_VERSION_MAP[f]] <= b
            THEN f \in merged /\ f \in DOMAIN a.mergedChanges
                 /\ a.mergedChanges[f] = changes[f]
            ELSE f \in rejected /\ f \notin DOMAIN a.mergedChanges
       /\ merged \cap rejected = {}
       /\ merged \cup rejected = F
       /\ DOMAIN a.mergedChanges = merged
       /\ Len(a.mergedFields) = Cardinality(merged)
       /\ Len(a.rejectedFields) = Cardinality(rejected)
       /\ a.hasConflict <=> rejected # {}
       /\ a.fullyRejected <=> (merged = {} /\ rejected # {})

\* a stored task whose four per-field versions differ enough for one
\* baseVersion to split title from description and columnId from position
C4_Witness ==
  \E t \in DOMAIN tasks :
    /\ tasks[t].titleVersion = 1
    /\ tasks[t].descriptionVersion = 2
    /\ tasks[t].columnVersion = 1
    /\ tasks[t].positionVersion = 3
    /\ LET a == analyseConflict(tasks[t], 1, SampleChanges(FieldNames))
       IN a.mergedFields = <<"title", "columnId">>
          /\ a.rejectedFields = <<"description", "position">>

\* what a fully rejected request p of client c must return and leave behind
RejectedOutcome(c, p) ==
  /\ tasks' = tasks
  /\ res'.status = "ok"
  /\ res'.task = tasks[p.taskId]
  /\ res'.conflict.resolution = "REJECTED"
  /\ res'.conflict.mergedFields = <<>>
  /\ res'.conflict.rejectedFields = InOrder(Requested(p))
  /\ res'.needsRebalance = FALSE
  /\ pc'[c] = "idle"

\* C5: a fully rejected updateTask or moveTask writes nothing: the stored row
\* is the same before and after, the returned task is that row, the conflict
\* is REJECTED with no merged field and every requested field rejected, and
\* a move reports needsRebalance false (no rebalance follows)
C5_RejectedNoWrite ==
  [][\A c \in Clients :
       /\ Commits(c, "UPDATE_TASK") => \A p \in LockedUpdates(c) :
            (UpdateCommit(c, p) /\ p.taskId \in DOMAIN tasks
               /\ FullyRejected(tasks[p.taskId], p)) => RejectedOutcome(c, p)
       /\ Commits(c, "MOVE_TASK") => \A p \in LockedMoves(c) :
            (MoveCommit(c, p) /\ p.taskId \in DOMAIN tasks
               /\ FullyRejected(tasks[p.taskId], p)) => RejectedOutcome(c, p)]_vars

\* an update of both title and description has been rejected on a task whose
\* title and description were written after the client's baseVersion
C5_Witness ==
  /\ res.type = "UPDATE_TASK"
  /\ res.status = "ok"
  /\ res.conflict.resolution = "REJECTED"
  /\ res.conflict.rejectedFields = <<"title", "description">>
  /\ res.taskId \in DOMAIN tasks
  /\ tasks[res.taskId] = res.task
  /\ res.task.titleVersion = 2
  /\ res.task.descriptionVersion = 2
  /\ res.task.version = 2

\* the last returned call was a write of the given type to p's task, reported
\* without conflict, and p carries the version the row had before that write
EarlierWrite(type, p) ==
  /\ res.type = type
  /\ res.status = "ok"
  /\ res.taskId = p.taskId
  /\ res.conflict.resolution = "NONE"
  /\ res.task.version = p.baseVersion + 1

\* the later of a move and an edit commits on top of the earlier one;
\* consecutive: nothing wrote the row between the two commits
MoveEditStep(consecutive) ==
  \A c \in Clients :
    /\ Commits(c, "UPDATE_TASK") => \A p \in LockedUpdates(c) :
         (UpdateCommit(c, p) /\ p.taskId \in DOMAIN tasks
            /\ EarlierWrite("MOVE_TASK", p)
            /\ (consecutive => tasks[p.taskId] = res.task))
         => LET new == tasks'[p.taskId]
            IN /\ res'.conflict.resolution = "NONE"
               /\ new.version = p.baseVersion + 2
               /\ new.columnId = res.task.columnId
               /\ new.position = res.task.position
               /\ new.columnVersion = p.baseVersion + 1
               /\ new.positionVersion = p.baseVersion + 1
               /\ \A f \in DOMAIN p.changes :
                    new[f] = p.changes[f] /\ new[FIELD_VERSION_MAP[f]] = new.version
    /\ Commits(c, "MOVE_TASK") => \A p \in LockedMoves(c) :
         (MoveCommit(c, p) /\ p.taskId \in DOMAIN tasks
            /\ EarlierWrite("UPDATE_TASK", p)
            /\ (consecutive => tasks[p.taskId] = res.task))
         => LET new == tasks'[p.taskId]
            IN /\ res'.conflict.resolution = "NONE"
               /\ new.version = p.baseVersion + 2
               /\ new.columnId = p.columnId
               /\ new.position = p.position
               /\ new.columnVersion = new.version
               /\ new.positionVersion = new.version
               /\ \A f \in {"title", "description"} :
                    /\ new[f] = res.task[f]
                    /\ new[FIELD_VERSION_MAP[f]] = res.task[FIELD_VERSION_MAP[f]]

\* C6 as stated: a move and an edit of one task that both carry the version
\* the row had before either, in either commit order, are both applied without
\* conflict; the final row has the move's columnId and position and the
\* edit's title and description, version has advanced by exactly two, and the
\* earlier commit's fields keep the earlier commit's per-field version
C6_MoveEditMerge == [][MoveEditStep(FALSE)]_vars

\* C6, amended: the same, provided the two commits are consecutive writes to
\* the row, i.e. no rebalance of the task's column commits between them
C6_MoveEditConsecutive == [][MoveEditStep(TRUE)]_vars

\* scenario 1: a move committed at version 2, then an edit of the title with
\* baseVersion 1 committed at version 3 without conflict
C6_Witness ==
  /\ res.type = "UPDATE_TASK"
  /\ res.status = "ok"
  /\ res.conflict.resolution = "NONE"
  /\ res.taskId \in DOMAIN tasks
  /\ tasks[res.taskId] = res.task
  /\ res.task.version = 3
  /\ res.task.titleVersion = 3
  /\ res.task.title \in Clients
  /\ res.task.columnVersion = 2
  /\ res.task.positionVersion = 2
  /\ res.task.columnId = "done"

C8_RowLockAtomic ==
  [][\A c \in Clients :
       /\ pc'[c] = "locked"
            => /\ lockId'[c] \in DOMAIN tasks'
               /\ cur'[c] = tasks'[lockId'[c]]
               /\ \A d \in Clients \ {c} : ~(pc'[d] = "locked" /\ lockId'[d] = lockId'[c])
       /\ Commits(c, "UPDATE_TASK") => \A p \in LockedUpdates(c) :
            (UpdateCommit(c, p) /\ p.taskId \in DOMAIN tasks
               /\ p.baseVersion <= tasks[p.taskId].version)
            => \A f \in MergedSet(tasks[p.taskId], p) :
                 tasks'[p.taskId][FIELD_VERSION_MAP[f]] > p.baseVersion
       /\ Commits(c, "MOVE_TASK") => \A p \in LockedMoves(c) :
            (MoveCommit(c, p) /\ p.taskId \in DOMAIN tasks
               /\ p.baseVersion <= tasks[p.taskId].version)
            => \A f \in MergedSet(tasks[p.taskId], p) :
                 tasks'[p.taskId][FIELD_VERSION_MAP[f]] > p.baseVersion]_vars

\* two edits of the title with baseVersion 1: the first was merged at version
\* 2, the second analysed the committed row and was rejected on title, and
\* the first writer's title is still stored
C8_Witness ==
  /\ res.type = "UPDATE_TASK"
  /\ res.status = "ok"
  /\ res.conflict.resolution = "REJECTED"
  /\ res.conflict.rejectedFields = <<"title">>
  /\ res.taskId \in DOMAIN tasks
  /\ tasks[res.taskId] = res.task
  /\ res.task.title \in Clients
  /\ res.task.titleVersion = 2
  /\ res.task.version = 2

\* C9: in every committed state, two distinct tasks of one column have
\* different positions
C9_DistinctPositions ==
  \A t, u \in DOMAIN tasks :
    (t # u /\ tasks[t].columnId = tasks[u].columnId)
      => tasks[t].position # tasks[u].position

\* C10: every stored task has a position strictly greater than zero
C10_PositionsPositive ==
  \A t \in DOMAIN tasks : tasks[t].position > 0

\* the task ids a rebalance of client c has locked
RebalanceIds(c) == {rebRows[c][i].id : i \in 1..Len(rebRows[c])}

C12_RebalanceAtomic ==
  [][\A c \in Clients : pc[c] = "rebalLocked" =>
       LET rows == rebRows[c]
           snapshot == getAllTasks(tasks')
           Written(i) == /\ rows[i].id \in DOMAIN snapshot
                         /\ snapshot[rows[i].id].position = i * 262144
                         /\ snapshot[rows[i].id].version = rows[i].version + 1
           Untouched(i) == /\ rows[i].id \in DOMAIN snapshot
                           /\ rows[i].id \in DOMAIN tasks
                           /\ snapshot[rows[i].id] = tasks[rows[i].id]
                           /\ snapshot[rows[i].id].version = rows[i].version
       IN \/ \A i \in 1..Len(rows) : Written(i)
          \/ \A i \in 1..Len(rows) : Untouched(i)]_vars

\* a rebalance holds both rows of a column after the move that asked for it
\* was committed, and the committed table still shows neither of its writes
C12_Witness ==
  \E c \in Clients :
    /\ pc[c] = "rebalLocked"
    /\ Len(rebRows[c]) = 2
    /\ res.type = "MOVE_TASK"
    /\ res.needsRebalance
    /\ \A i \in 1..2 :
         /\ rebRows[c][i].id \in DOMAIN tasks
         /\ tasks[rebRows[c][i].id].version = rebRows[c][i].version
         /\ tasks[rebRows[c][i].id].position = 4

\* C13: deleteTask on an existing task removes the row and returns deleted =
\* true for every baseVersion, stale, current or larger than the row's
\* version; on a missing row it returns deleted = false and changes nothing
C13_DeleteUnconditional ==
  [][\A c \in Clients : (pc[c] = "idle" /\ res'.type = "DELETE_TASK") =>
       \A p \in DeletePayloads :
         DeleteTask(c, p)
         => IF p.taskId \in DOMAIN tasks
            THEN /\ res'.deleted
                 /\ res'.task = tasks[p.taskId]
                 /\ DOMAIN tasks' = DOMAIN tasks \ {p.taskId}
                 /\ \A u \in DOMAIN tasks' : tasks'[u] = tasks[u]
            ELSE /\ ~res'.deleted
                 /\ tasks' = tasks]_vars

\* a task at version 3, written twice since version 1, has been deleted
C13_Witness ==
  /\ res.type = "DELETE_TASK"
  /\ res.deleted
  /\ res.task.version = 3
  /\ res.task.titleVersion = 2
  /\ res.task.columnVersion = 3
  /\ res.taskId \notin DOMAIN tasks

\* ---- messages handled one after the other, no other handler running ----
\* handleUpdateTask: the tables it can leave
HandleUpdate(tbl, p) ==
  IF p.taskId \notin DOMAIN tbl THEN {tbl}
  ELSE LET r == updateTask(tbl[p.taskId], tbl[p.taskId], p)
       IN {IF r.write THEN [tbl EXCEPT ![p.taskId] = r.row] ELSE tbl}

\* handleMoveTask: moveTask, then rebalanceColumn when needsRebalance is set
HandleMove(tbl, p) ==
  IF p.taskId \notin DOMAIN tbl THEN {tbl}
  ELSE LET t == p.taskId
           w == moveTask(tbl, t, tbl[t], p, {})
           moved == IF w.write THEN [tbl EXCEPT ![t] = w.row] ELSE tbl
       IN UNION {LET r == moveTask(tbl, t, tbl[t], p, neighbours)
                 IN IF r.needsRebalance
                    THEN {rebalanceColumn(moved, rows) :
                            rows \in OrderedRows(moved,
                                       ColumnTasks(moved, r.task.columnId))}
                    ELSE {moved} :
                 neighbours \in Neighbours(moved, t, w.row.columnId, w.row.position)}

HandleDelete(tbl, p) == {deleteTask(tbl, p).table}

Handle(tbl, m) ==
  CASE m.type = "UPDATE_TASK" -> HandleUpdate(tbl, m)
    [] m.type = "MOVE_TASK" -> HandleMove(tbl, m)
    [] OTHER -> HandleDelete(tbl, m)

Then(tables, m) == UNION {Handle(tbl, m) : tbl \in tables}

\* the handling of move p on tbl can end in a rebalance
MoveRebalances(tbl, p) ==
  /\ p.taskId \in DOMAIN tbl
  /\ LET t == p.taskId
         w == moveTask(tbl, t, tbl[t], p, {})
         moved == IF w.write THEN [tbl EXCEPT ![t] = w.row] ELSE tbl
     IN \E neighbours \in Neighbours(moved, t, w.row.columnId, w.row.position) :
          moveTask(tbl, t, tbl[t], p, neighbours).needsRebalance

Quiescent == \A c \in Clients : pc[c] = "idle"

\* the messages that target task t
MessagesFor(t) ==
  {p \in (UNION {UpdatePayloads(c) : c \in Clients}) \cup MovePayloads \cup DeletePayloads :
     p.taskId = t}

\* C14 as stated: for any stored task t and any other message X targeting t
\* (an update, a move with any rebalance it triggers, or another delete),
\* handling DELETE_TASK(t) and X in either order leaves the same task table
C14_DeleteCommutes ==
  Quiescent =>
    \A t \in DOMAIN tasks : \A d \in {p \in DeletePayloads : p.taskId = t} :
      \A X \in MessagesFor(t) :
        Then(Handle(tasks, d), X) = Then(Handle(tasks, X), d)

\* a row with the columns a rebalance writes blanked out
BesidesPosition(row) ==
  [row EXCEPT !.position = 0, !.version = 0, !.positionVersion = 0]

\* C14 (amended): handling DELETE_TASK(t) and another message X for t in
\* either order leaves the same table unless X is a move whose handling
\* rebalances the column; in every case t is gone, no other row is added or
\* removed, and the remaining rows differ from before at most in the columns
\* a rebalance writes (position, version, position_version)
C14_DeleteCommutesOnRow ==
  Quiescent =>
    \A t \in DOMAIN tasks : \A d \in {p \in DeletePayloads : p.taskId = t} :
      \A X \in MessagesFor(t) :
        LET L == Then(Handle(tasks, d), X)
            R == Then(Handle(tasks, X), d)
        IN /\ (X.type = "MOVE_TASK" /\ MoveRebalances(tasks, X)) \/ L = R
           /\ \A f \in L \cup R :
                /\ DOMAIN f = DOMAIN tasks \ {t}
                /\ \A u \in DOMAIN f : BesidesPosition(f[u]) = BesidesPosition(tasks[u])

\* a quiescent state with two stored tasks, one of which some move would
\* really move (merged, table changed) without a rebalance, and for which
\* the two orders agree
C14_Witness ==
  /\ Quiescent
  /\ Cardinality(DOMAIN tasks) = 2
  /\ \E t \in DOMAIN tasks : \E X \in MovePayloads : \E d \in DeletePayloads :
       /\ X.taskId = t /\ d.taskId = t /\ d.baseVersion < tasks[t].version
       /\ ~MoveRebalances(tasks, X)
       /\ Handle(tasks, X) # {tasks}
       /\ Then(Handle(tasks, X), d) = Then(Handle(tasks, d), X)

\* ---- what the router step taken last delivered
\* the messages it sent to session d, in order
Received(d) ==
  LET got == SelectSeq(sent.msgs, LAMBDA m : d \in m.to)
  IN [i \in 1..Len(got) |-> [type |-> got[i].type, payload |-> got[i].payload]]

Types(d) == [i \in 1..Len(Received(d)) |-> Received(d)[i].type]

\* the step returned from an UPDATE_TASK / MOVE_TASK service call
WriteHandled ==
  sent.handled \in {"UPDATE_TASK", "MOVE_TASK"} /\ res.status = "ok"

Announce == IF sent.handled = "UPDATE_TASK" THEN "TASK_UPDATED" ELSE "TASK_MOVED"

\* C15 as stated: after a fully rejected UPDATE_TASK or MOVE_TASK the sender
\* has received CONFLICT_RESOLVED with resolution REJECTED and the current
\* task, every other open session has received TASK_UPDATED / TASK_MOVED with
\* the unchanged current task, and the sender has not received that message
C15_RejectedNotToSender ==
  (WriteHandled /\ res.conflict.resolution = "REJECTED") =>
    LET c == sent.client
        current == tasks[res.taskId]
    IN /\ c \in connections =>
            /\ Len(Received(c)) >= 1
            /\ Received(c)[1].type = "CONFLICT_RESOLVED"
            /\ Received(c)[1].payload.resolution = "REJECTED"
            /\ Received(c)[1].payload.task = current
       /\ \A d \in connections \ {c} :
            Received(d) = <<[type |-> Announce, payload |-> current]>>
       /\ \A i \in 1..Len(Received(c)) : Received(c)[i].type # Announce

\* the requests session c can be committing in the router model
RouterLocked(c) ==
  IF pc[c] = "locked"
  THEN {p \in RouterUpdatePayloads(c) \cup RouterMovePayloads : p.taskId = lockId[c]}
  ELSE {}

WriteCommit(c, p) ==
  IF p.type = "UPDATE_TASK" THEN UpdateCommit(c, p) ELSE MoveCommit(c, p)

\* C16: when an UPDATE_TASK / MOVE_TASK is written with some field rejected,
\* the sender receives CONFLICT_RESOLVED (MERGED, the updated task, exactly the
\* merged and the rejected fields) and after it TASK_UPDATED / TASK_MOVED with
\* the updated task, and every other open session receives that one message;
\* when no field is rejected every open session receives exactly that one
\* message and nobody receives CONFLICT_RESOLVED
C16_MergeThenBroadcast ==
  [][\A c \in Clients :
       (Commits(c, "UPDATE_TASK") \/ Commits(c, "MOVE_TASK")) =>
         \A p \in RouterLocked(c) :
           (p.type = res'.type /\ p.taskId \in DOMAIN tasks
              /\ ~FullyRejected(tasks[p.taskId], p) /\ WriteCommit(c, p))
           => LET old == tasks[p.taskId]
                  note == [type |-> IF p.type = "UPDATE_TASK"
                                    THEN "TASK_UPDATED" ELSE "TASK_MOVED",
                           payload |-> tasks'[p.taskId]]
                  resolved ==
                    [type |-> "CONFLICT_RESOLVED",
                     payload |-> [taskId |-> p.taskId, resolution |-> "MERGED",
                                  task |-> tasks'[p.taskId],
                                  mergedFields |-> InOrder(MergedSet(old, p)),
                                  rejectedFields |-> InOrder(RejectedSet(old, p))]]
              IN /\ sent'.client = c
                 /\ \A d \in Clients :
                      Received(d)' =
                        IF d \notin connections THEN <<>>
                        ELSE IF d = c /\ RejectedSet(old, p) # {}
                             THEN <<resolved, note>>
                             ELSE <<note>>]_vars

\* a partial merge of an update with both sessions open: the sender has
\* received two messages, the other session one
C16_Witness ==
  /\ WriteHandled
  /\ sent.handled = "UPDATE_TASK"
  /\ res.conflict.resolution = "MERGED"
  /\ connections = Clients
  /\ Types(sent.client) = <<"CONFLICT_RESOLVED", "TASK_UPDATED">>
  /\ \A d \in Clients \ {sent.client} : Types(d) = <<"TASK_UPDATED">>

\* C17 as stated: an UPDATE_TASK or MOVE_TASK naming a task that is not stored
\* gets the sender one ERROR with code NOT_FOUND and that taskId, and no other
\* session receives anything
C17_MissingTaskNotFound ==
  (sent.handled \in {"UPDATE_TASK", "MOVE_TASK"} /\ res.status = "error") =>
    /\ Len(Received(sent.client)) = 1
    /\ Received(sent.client)[1].type = "ERROR"
    /\ Received(sent.client)[1].payload.code = "NOT_FOUND"
    /\ "taskId" \in DOMAIN Received(sent.client)[1].payload
    /\ Received(sent.client)[1].payload.taskId = res.taskId
    /\ \A d \in Clients \ {sent.client} : Received(d) = <<>>

\* C18: a DELETE_TASK of a stored task removes it and delivers exactly
\* TASK_DELETED with its id to every open session, the sender included; a
\* DELETE_TASK of a task that is not stored delivers exactly one ERROR with
\* code NOT_FOUND and the id to the sender and nothing to anyone else, and
\* changes no row; an id that has been deleted is never stored again, so of
\* two deletes of one task exactly one produces TASK_DELETED
C18_DeleteAnnounced ==
  [][/\ \A t \in TaskIds : (t < nextId /\ t \notin DOMAIN tasks) => t \notin DOMAIN tasks'
     /\ (res'.type = "DELETE_TASK" /\ sent'.handled = "DELETE_TASK") =>
          \A c \in connections : \A p \in RouterDeletePayloads :
            Handles(c, DeleteTask(c, p))
            => IF p.taskId \in DOMAIN tasks
               THEN /\ p.taskId \notin DOMAIN tasks'
                    /\ \A d \in Clients :
                         Received(d)' =
                           IF d \in connections
                           THEN <<[type |-> "TASK_DELETED",
                                   payload |-> [taskId |-> p.taskId]]>>
                           ELSE <<>>
               ELSE /\ tasks' = tasks
                    /\ Types(c)' = <<"ERROR">>
                    /\ Received(c)[1]'.payload.code = "NOT_FOUND"
                    /\ Received(c)[1]'.payload.taskId = p.taskId
                    /\ \A d \in Clients \ {c} : Received(d)' = <<>>]_vars

\* with both sessions open, a delete of a task that was stored and has
\* already been deleted: NOT_FOUND to its sender only
C18_Witness ==
  /\ sent.handled = "DELETE_TASK"
  /\ ~res.deleted
  /\ res.taskId < nextId
  /\ connections = Clients
  /\ Types(sent.client) = <<"ERROR">>
  /\ \A d \in Clients \ {sent.client} : Types(d) = <<>>

\* C19 as stated: a frame that is no ClientMessage (not JSON, null, an object
\* without type or with an unknown type) gets its session, which stays open,
\* exactly one ERROR with code INVALID_JSON or UNKNOWN_MESSAGE_TYPE, and no
\* other session receives anything
C19_BadFrameError ==
  sent.handled = "FRAME" =>
    /\ sent.client \in connections
    /\ Types(sent.client) = <<"ERROR">>
    /\ Received(sent.client)[1].payload.code \in {"INVALID_JSON", "UNKNOWN_MESSAGE_TYPE"}
    /\ \A d \in Clients \ {sent.client} : Received(d) = <<>>

FreshVersions(row) ==
  /\ row.version = 1
  /\ \A f \in FieldNames : row[FIELD_VERSION_MAP[f]] = 1

\* C30: createTask stores a new row with version and the four per-field
\* versions 1; a strictly positive client position is stored as sent;
\* otherwise the position is computed in the transaction as INITIAL_STEP above
\* the column's maximum at that moment (INITIAL_STEP for an empty column),
\* which is greater than every position then stored in the column, and that
\* computed position is the one inserted
C30_CreateTask ==
  [][\A c \in Clients :
       /\ (nextId' # nextId \/ pc'[c] = "creating") =>
            \A payload \in CreatePayloads :
              /\ CreateTask(c, payload)
                 => /\ payload.position > 0
                    /\ DOMAIN tasks' = DOMAIN tasks \cup {nextId}
                    /\ FreshVersions(tasks'[nextId])
                    /\ tasks'[nextId].position = payload.position
                    /\ tasks'[nextId].columnId = payload.columnId
              /\ CreateRead(c, payload)
                 => LET column == ColumnTasks(tasks, payload.columnId)
                    IN /\ ~(payload.position > 0)
                       /\ tasks' = tasks
                       /\ column = {} => cur'[c].position = INITIAL_STEP
                       /\ \A t \in column : cur'[c].position > tasks[t].position
                       /\ column # {} =>
                            \E t \in column :
                              cur'[c].position = tasks[t].position + INITIAL_STEP
       /\ CreateInsert(c)
          => /\ DOMAIN tasks' = DOMAIN tasks \cup {nextId}
             /\ FreshVersions(tasks'[nextId])
             /\ tasks'[nextId].position = cur[c].position
             /\ tasks'[nextId].columnId = cur[c].columnId]_vars

\* a task created without a usable position stands INITIAL_STEP above a task
\* of its column that was created at a client position
C30_Witness ==
  \E t, u \in DOMAIN tasks :
    /\ tasks[u].columnId = tasks[t].columnId
    /\ tasks[u].position = 4
    /\ tasks[t].position = 4 + INITIAL_STEP
    /\ FreshVersions(tasks[t])

\* C25 as stated: while an accepted session is open, the connection registry
\* maps its clientId to that session's own WebSocket and the presence map
\* holds its entry, also when another session connects or closes with the
\* same clientId
C25_EntryLifetime ==
  \A s \in Sockets :
    sockets[s].open =>
      /\ sockets[s].clientId \in DOMAIN registry
      /\ registry[sockets[s].clientId] = s
      /\ sockets[s].clientId \in presence

\* C26 as stated: whenever a session closes, at any point after accept, its
\* connection entry and its presence entry are removed and every remaining
\* open session is sent a PRESENCE_UPDATE that does not list the client
C26_CloseCleansUp ==
  [][\A s \in Sockets :
       Close(s) =>
         LET id == sockets[s].clientId
         IN /\ id \notin DOMAIN registry'
            /\ id \notin presence'
            /\ \A r \in Sockets \ {s} :
                 sockets[r].open =>
                   outbox'[r] = Append(outbox[r], [type |-> "PRESENCE_UPDATE",
                                                   payload |-> presence \ {id}])]_vars

\* the one write to the row since version b is client c's own update of the
\* title (the title holds c's text, and no other write has happened since b)
OwnWriteOnly(row, c, b) ==
  /\ row.version = b + 1
  /\ row.titleVersion = b + 1
  /\ row.title = ClientChanges(c, {"title"}).title

\* C29: a field of a write with base version b is rejected only because a
\* different client's write modified it after version b, never because of
\* the client's own earlier writes: when the only write to the task since b
\* is the client's own, its update commits with no rejected field
C29_RejectedOnlyByOthers ==
  [][\A c \in Clients : \A p \in LockedUpdates(c) :
       (/\ Commits(c, "UPDATE_TASK")
        /\ p.taskId \in DOMAIN tasks
        /\ OwnWriteOnly(tasks[p.taskId], c, p.baseVersion)
        /\ UpdateCommit(c, p))
       => res'.conflict.rejectedFields = <<>>]_vars

\* C21: within a session the messages are handled one at a time: two
\* handleMessage calls in progress never serve the same session
C21_OneAtATime ==
  \A h, g \in Clients :
    (h # g /\ Busy(h) /\ Busy(g)) => handler[h].socket # handler[g].socket

\* C28: the REPLAY_QUEUE frame a client sends when its socket opens is
\* dispatched, with its operations in enqueue order, whenever it arrives on
\* the open socket, also while the server still awaits the initial-state query
C28_ReplayDispatched ==
  [][\A s \in Sockets :
       (/\ inflight[s] # <<>>
        /\ inflight'[s] = Tail(inflight[s])
        /\ Head(inflight[s]).replay
        /\ sockets[s].open)
       => \E h \in Clients :
            /\ ~Busy(h)
            /\ handler'[h].socket = s
            /\ handler'[h].clientId = sockets[s].clientId
            /\ handler'[h].ops = Head(inflight[s]).ops]_vars

\* the position of INITIAL_STATE among the messages written to socket s
InitialStateAt(s) ==
  {i \in 1..Len(outbox[s]) : outbox[s][i].type = "INITIAL_STATE"}

\* the creation of task t has been announced: no handleCreateTask call still
\* holds its result
Announced(t) ==
  \A h \in Clients :
    ~(handler[h].result.type = "CREATE_TASK" /\ handler[h].result.taskId = t)

\* the tasks whose creation has been announced
AnnouncedTasks == {t \in DOMAIN tasks : Announced(t)}

\* the TASK_CREATED messages written to socket s after position i
CreatedAfter(s, i) ==
  {j \in (i + 1)..Len(outbox[s]) : outbox[s][j].type = "TASK_CREATED"}

\* C27: a session that has been accepted and holds its registry entry learns
\* of every created task: the task is in its INITIAL_STATE snapshot, or a
\* TASK_CREATED for it follows the INITIAL_STATE.  Tasks are never deleted
\* here, so the snapshot and the later TASK_CREATED messages together are at
\* least as many as the announced tasks
C27_NewSessionSeesCreate ==
  \A s \in Sockets :
    (/\ sockets[s].stage = "listening"
     /\ sockets[s].open
     /\ sockets[s].clientId \in DOMAIN registry
     /\ registry[sockets[s].clientId] = s)
    => \E i \in InitialStateAt(s) :
         Cardinality(DOMAIN outbox[s][i].payload.tasks)
           + Cardinality(CreatedAfter(s, i)) >= Cardinality(AnnouncedTasks)

\* the task a message written to a socket carries, NoRow for the other messages
Carried(m) ==
  IF m.type \in {"TASK_CREATED", "TASK_UPDATED", "TASK_MOVED"} THEN m.payload
  ELSE IF m.type = "CONFLICT_RESOLVED" THEN m.payload.task
  ELSE NoRow

Announcements == {"TASK_CREATED", "TASK_UPDATED", "TASK_MOVED"}

\* C23: when two writes commit in some order, a session that receives both
\* broadcasts receives them in that order.  With a single task on the board
\* the version a broadcast carries is its place in the commit order, so no
\* broadcast is followed by one of an earlier version; each session has sent
\* one frame, so the handlers run for different sessions
C23_BroadcastInCommitOrder ==
  (/\ nextId = 2
   /\ \A s \in Sockets : frames[s] <= 1
   /\ sockets["s1"].clientId # sockets["s2"].clientId) =>
    \A s \in Sockets : \A i, j \in 1..Len(outbox[s]) :
      (/\ i < j
       /\ outbox[s][i].type \in Announcements
       /\ outbox[s][j].type \in Announcements)
      => Carried(outbox[s][i]).version <= Carried(outbox[s][j]).version

\* C24: the versions of a task in the messages a client receives are strictly
\* increasing (with a single task on the board, every message that carries a
\* task carries that one)
C24_VersionsIncrease ==
  nextId = 2 =>
    \A s \in Sockets : \A i, j \in 1..Len(outbox[s]) :
      (/\ i < j
       /\ Carried(outbox[s][i]) # NoRow
       /\ Carried(outbox[s][j]) # NoRow)
      => Carried(outbox[s][i]).version < Carried(outbox[s][j]).version

\* the service call of operation op as handleMessage makes it for a message
\* of its own
ServiceCall(h, op) ==
  \/ op.type = "CREATE_TASK" /\ CreateTask(h, op)
  \/ op.type \in {"UPDATE_TASK", "MOVE_TASK"} /\ NotFound(h, op)
  \/ op.type = "UPDATE_TASK" /\ UpdateCommit(h, op)
  \/ op.type = "MOVE_TASK" /\ MoveCommit(h, op)

\* C22: REPLAY_QUEUE (like a single message, a list of one) is handled in
\* list order and one operation at a time, under the sender's clientId: a call
\* starts with the operations of the arriving frame; the next service result
\* is that of the service call of the first remaining operation on the table
\* as it is then; the messages of that result are sent with the sender's
\* clientId before the operation is dropped from the list; and whatever the
\* result (applied, merged, rejected or an error), exactly that one operation
\* is dropped and the rest remains to be handled
C22_ReplayInOrder ==
  [][\A h \in Clients :
       handler'[h] # handler[h] =>
         IF ~Busy(h)
         THEN \E s \in Sockets :
                /\ inflight[s] # <<>>
                /\ handler'[h] = [socket |-> s, clientId |-> sockets[s].clientId,
                                  ops |-> Head(inflight[s]).ops, result |-> NoRes]
         ELSE IF handler[h].result = NoRes
         THEN /\ handler'[h] = [handler[h] EXCEPT !.result = res']
              /\ outbox' = outbox
              /\ ServiceCall(h, Op(h))
         ELSE /\ outbox' = Deliver(outbox, registry,
                                   handleMessage(Reachable(registry, sockets),
                                                 sockets[handler[h].socket].clientId,
                                                 handler[h].result))
              /\ tasks' = tasks
              /\ handler'[h] = IF Len(handler[h].ops) = 1 THEN NoHandler
                               ELSE [handler[h] EXCEPT !.ops = Tail(@), !.result = NoRes]]_vars

\* a replayed queue whose first operation was rejected and whose second
\* operation was applied: the session received CONFLICT_RESOLVED (REJECTED) and
\* later TASK_MOVED, having sent one frame only
C22_Witness ==
  \E s \in Sockets :
    /\ frames[s] = 1
    /\ \E i, j \in 1..Len(outbox[s]) :
         /\ i < j
         /\ outbox[s][i].type = "CONFLICT_RESOLVED"
         /\ outbox[s][i].payload.resolution = "REJECTED"
         /\ outbox[s][j].type = "TASK_MOVED"

\* C40: baseVersion is compared with the per-field versions only, never with
\* the row's version: an update or move whose baseVersion is at least the
\* version of the locked row (also one above every version the row has had)
\* reports no conflict and writes every requested field, stamped with the new
\* version
C40_BaseAtLeastVersionMerges ==
  [][\A c \in Clients :
       (Commits(c, "UPDATE_TASK") \/ Commits(c, "MOVE_TASK")) =>
         \A p \in LockedUpdates(c) \cup LockedMoves(c) :
           (/\ p.type = res'.type
            /\ p.taskId \in DOMAIN tasks
            /\ p.baseVersion >= tasks[p.taskId].version
            /\ IF p.type = "UPDATE_TASK" THEN UpdateCommit(c, p) ELSE MoveCommit(c, p))
           => LET old == tasks[p.taskId]
                  new == tasks'[p.taskId]
              IN /\ res'.status = "ok"
                 /\ res'.conflict = NoConflict
                 /\ new.version = old.version + 1
                 /\ \A f \in Requested(p) :
                      /\ new[f] = Proposed(p, f)
                      /\ new[FIELD_VERSION_MAP[f]] = new.version]_vars

\* the first write to a task: an update of the title and the description of a
\* row at version 1 (every baseVersion is at least 1) has been applied with no
\* conflict
C40_Witness ==
  /\ res.type = "UPDATE_TASK"
  /\ res.status = "ok"
  /\ res.conflict = NoConflict
  /\ res.taskId \in DOMAIN tasks
  /\ tasks[res.taskId] = res.task
  /\ res.task.version = 2
  /\ res.task.titleVersion = 2
  /\ res.task.descriptionVersion = 2

\* C39: an updateTask with an empty changes mapping is a write that is not
\* rejected: it raises the row's version by one and leaves the four values and
\* the four per-field versions as they were, it returns no conflict, and the
\* router broadcasts the row as TASK_UPDATED to every registered session
C39_EmptyUpdate ==
  [][\A c \in Clients : Commits(c, "UPDATE_TASK") => \A p \in LockedUpdates(c) :
       (/\ DOMAIN p.changes = {}
        /\ p.taskId \in DOMAIN tasks
        /\ UpdateCommit(c, p))
       => LET old == tasks[p.taskId]
              new == tasks'[p.taskId]
          IN /\ new = [old EXCEPT !.version = old.version + 1]
             /\ res'.status = "ok"
             /\ res'.task = new
             /\ res'.conflict = NoConflict
             /\ \A conns \in SUBSET Clients \ {{}} :
                  handleMessage(conns, c, res')
                    = <<Msg(conns, "TASK_UPDATED", new)>>]_vars

\* an empty update has been committed after a title update: the row is at
\* version 3 with its title stamped 2 and no other stamp raised
C39_Witness ==
  /\ res.type = "UPDATE_TASK"
  /\ res.status = "ok"
  /\ res.conflict = NoConflict
  /\ res.taskId \in DOMAIN tasks
  /\ tasks[res.taskId] = res.task
  /\ res.task.version = 3
  /\ res.task.titleVersion = 2
  /\ res.task.descriptionVersion = 1
  /\ res.task.columnVersion = 1
  /\ res.task.positionVersion = 1

\* the other tasks of task t's column that lie within MIN_GAP of it
TooClose(tbl, t) ==
  {u \in ColumnTasks(tbl, tbl[t].columnId) \ {t} :
     Abs(tbl[u].position - tbl[t].position) < MIN_GAP}

\* C35: after a moveTask that is not rejected, needsRebalance is true iff
\* some other task of the column the task is stored in lies at a distance
\* below MIN_GAP from the task's stored position, whatever the number of
\* tasks in the column (the query reads the two nearest only)
C35_NeedsRebalance ==
  [][\A c \in Clients :
       (/\ Commits(c, "MOVE_TASK")
        /\ res'.status = "ok"
        /\ res'.conflict.resolution # "REJECTED")
       => (res'.needsRebalance <=> TooClose(tasks', res'.taskId) # {})]_vars

\* a move into a column of three other tasks of which exactly one is too
\* close has asked for a rebalance
C35_Witness ==
  /\ res.type = "MOVE_TASK"
  /\ res.status = "ok"
  /\ res.needsRebalance
  /\ res.taskId \in DOMAIN tasks
  /\ Cardinality(ColumnTasks(tasks, tasks[res.taskId].columnId)) = 4
  /\ Cardinality(TooClose(tasks, res.taskId)) = 1

\* an UPDATE_TASK request with the changes of SampleChanges on fields F
AnyUpdate(t, b, F) ==
  [NoReq EXCEPT !.type = "UPDATE_TASK", !.taskId = t, !.baseVersion = b,
                !.changes = SampleChanges(F)]

\* C37: on every table, mem_updateTask and mem_moveTask return the result of
\* updateTask and moveTask and store the same row, for every baseVersion and
\* every changes mapping over the four fields
C37_MemoryStoreEquivalent ==
  \A t \in DOMAIN tasks : \A b \in BaseVersions :
    /\ \A F \in SUBSET FieldNames :
         mem_updateTask(tasks[t], AnyUpdate(t, b, F))
           = updateTask(tasks[t], tasks[t], AnyUpdate(t, b, F))
    /\ \A p \in MovePayloads :
         (p.taskId = t /\ p.baseVersion = b) =>
           LET w == moveTask(tasks, t, tasks[t], p, {})
               after == IF w.write THEN [tasks EXCEPT ![t] = w.row] ELSE tasks
           IN \A neighbours \in Neighbours(after, t, w.row.columnId, w.row.position) :
                mem_moveTask(tasks, t, p) = moveTask(tasks, t, tasks[t], p, neighbours)

\* the ids of the tasks the REBALANCED message of client c's rebalance carries
Rebalancing(c) == {rebRows[c][i].id : i \in 1..Len(rebRows[c])}

\* C34: the rebalance a move asks for runs after the move has committed, in a
\* transaction of its own, and REBALANCED carries every task that is in the
\* column when the rebalance commits, with the position and version the
\* rebalance gave it; a rejected move starts no rebalance
C34_RebalancedCarriesColumn ==
  [][\A c \in Clients :
       /\ (Commits(c, "MOVE_TASK") /\ res'.conflict.resolution = "REJECTED")
            => pc'[c] = "idle"
       /\ (pc[c] = "rebalLocked" /\ rebRows[c] # <<>> /\ RebalanceCommit(c))
            => LET updates == rebalanceUpdates(tasks, rebRows[c])
               IN /\ ColumnTasks(tasks', tasks[rebRows[c][1].id].columnId) = Rebalancing(c)
                  /\ \A i \in 1..Len(updates) :
                       tasks'[rebRows[c][i].id] = updates[i]]_vars

\* the exact difference y - x, as a number of units 2^e
ExactGap(x, y, e) == Scaled(y, e) - Scaled(x, e)

\* y - x < MIN_GAP, in exact arithmetic
GapExhausted(x, y) ==
  LET gap == Quarters(MIN_GAP)
      e == IF gap.e < CommonExponent(x, y) THEN gap.e ELSE CommonExponent(x, y)
  IN ExactGap(x, y, e) < Scaled(gap, e)

C31_StrictlyBetween ==
  split.returned /\ split.before # Null /\ split.after # Null
    /\ ~GapExhausted(split.before[1], split.after[1]) =>
      /\ split.pos # Null
      /\ Less(split.before[1], split.pos[1])
      /\ Less(split.pos[1], split.after[1])

\* the places of the store that hold the task with this id
Copies(id) == {i \in 1..Len(store.tasks) : store.tasks[i].id = id}

\* C33: applying a TASK_CREATED message to the client store is an idempotent
\* upsert: whether or not the task was in the store before (created by
\* another client, missing from the snapshot, or already there from
\* INITIAL_STATE or an earlier TASK_CREATED), the store ends with exactly one
\* copy of the task, and the copy carries the server's state.
C33_TaskCreatedUpserts ==
  delivered.type = "TASK_CREATED" =>
    /\ Cardinality(Copies(delivered.task.id)) = 1
    /\ \A i \in Copies(delivered.task.id) : store.tasks[i] \in ServerTasks

\* session c's transaction is rolled back in this step
RollsBack(c) ==
  /\ txn[c].kind # "none"
  /\ txn'[c].last.outcome = "rolledBack"
  /\ txn'[c] # txn[c]

\* C36: if any statement of a mutating transaction fails, none of the
\* transaction's writes are visible afterwards: the table is as it was, every
\* row the transaction had locked (for a rebalance that fails midway, every
\* row of the column) is at the position and version it was read with, and
\* the sender gets an ERROR with code INTERNAL_ERROR.
C36_FailureRollsBack ==
  [][\A c \in Clients :
       RollsBack(c) =>
         /\ tasks' = tasks
         /\ \A i \in 1..Len(txn[c].read) :
              txn[c].read[i].match =>
                /\ txn[c].read[i].id \in DOMAIN tasks'
                /\ tasks'[txn[c].read[i].id] = txn[c].read[i].row
         /\ \A conns \in SUBSET Clients :
              c \in conns =>
                LET out == handleMessage(conns, c, res')
                IN /\ Len(out) = 1
                   /\ out[1].to = {c}
                   /\ out[1].type = "ERROR"
                   /\ out[1].payload.code = "INTERNAL_ERROR"]_vars

\* a rebalance has failed after its first UPDATE and before its last: the row
\* it had updated is still at its old position
C36_Witness ==
  \E c \in Clients :
    /\ txn[c].last.kind = "rebalance"
    /\ txn[c].last.outcome = "rolledBack"
    /\ Len(txn[c].last.pending) = 1
    /\ Cardinality(ColumnTasks(tasks, "done")) > 1
    /\ res.status = "error"
    /\ LET w == txn[c].last.pending[1]
       IN /\ w.id \in DOMAIN tasks
          /\ tasks[w.id].position # w.row.position
          /\ tasks[w.id].version = w.row.version - 1

====
